---------------------------- MODULE Spec2Model ----------------------------
(***************************************************************************)
(* A model of the multi-stage retrieval pipeline of the welfare chatbot    *)
(* (src/app/chatbot.py, WelfareChatbot) over the in-memory catalog of      *)
(* src/app/db_service.py (DBService).                                      *)
(*                                                                         *)
(* Text is a sequence of one-character strings.  The alphabet holds the    *)
(* characters whose treatment differs somewhere in the code: lower-case    *)
(* letters, one upper-case letter (re.IGNORECASE against the               *)
(* case-sensitive `in`), the space (the only character str.replace(" ",    *)
(* "") removes), the tab (whitespace for str.strip() and for \s, but not   *)
(* removed by replace(" ", "")), and the regular-expression                *)
(* metacharacters "(", ")" and "?", which the pattern of the fast-track    *)
(* reduction does not escape.                                              *)
(***************************************************************************)
EXTENDS Integers, Sequences, FiniteSets, TLC

VARIABLES
    all_docs,               \* DBService.all_docs: the catalog, fixed after load
    service_names_list,     \* WelfareChatbot.service_names_list
    messages,               \* session_state['messages'] of the current turn
    chat_history,           \* local of chat(): the formatted history
    pc,                     \* position of the turn inside chat()
    remaining_query,        \* local of _get_intelligent_response
    detected_service_name,  \* local: result of the last detection
    detections,             \* names detected so far in this turn, in order
    fast_track_docs,        \* local
    intelligent_docs,       \* local
    query_analysis,         \* local: what _generate_search_plan returned
    search_plan,            \* local: the plan's step list
    step_index,             \* position of the `for i, plan in enumerate` loop
    planner_calls,          \* texts handed to _generate_search_plan this turn
    crisis_support_docs,    \* local
    final_docs,             \* local
    lookups,                \* filter_dicts handed to metadata_search this turn
    synthesis,              \* the synthesis chain invoked, with its documents
    context_string,         \* local of _generate_final_answer: the context
    context_list,           \* local of _generate_final_answer: the groups
    result                  \* what chat() gives its caller

vars == << all_docs, service_names_list, messages, pc, remaining_query,
           detected_service_name, detections, fast_track_docs,
           intelligent_docs, query_analysis, search_plan, step_index,
           planner_calls, crisis_support_docs, final_docs, lookups, synthesis,
           result, chat_history, context_list, context_string >>

-----------------------------------------------------------------------------
(* Bounds of the model.                                                    *)

MaxWords == 2        \* words of the vocabulary in one user utterance
MaxPlanSteps == 2    \* steps in a planner-authored search plan
MaxTextLen == 4      \* length of the free texts handed to the fast-track loop
MaxTurns == 7        \* turns of a session, the trailing one included
MaxBatch == 2        \* documents in each list handed to the dedup utility

-----------------------------------------------------------------------------
(* Characters and strings.                                                 *)

\* Python's None wherever a text may be absent: no text holds this element.
None == << "None" >>

\* Python's ord() on the characters of the alphabet (order of sorted()).
Code(c) ==
    CASE c = "\t" -> 9
      [] c = " "  -> 32
      [] c = "("  -> 40
      [] c = ")"  -> 41
      [] c = "\n" -> 10
      [] c = "#"  -> 35
      [] c = "-"  -> 45
      [] c = "0"  -> 48
      [] c = "1"  -> 49
      [] c = ":"  -> 58
      [] c = "B"  -> 66
      [] c = "C"  -> 67
      [] c = "D"  -> 68
      [] c = "I"  -> 73
      [] c = "M"  -> 77
      [] c = "N"  -> 78
      [] c = "O"  -> 79
      [] c = "T"  -> 84
      [] c = "?"  -> 63
      [] c = "A"  -> 65
      [] c = "a"  -> 97
      [] c = "b"  -> 98
      [] c = "c"  -> 99
      [] c = "d"  -> 100
      [] c = "e"  -> 101
      [] c = "g"  -> 103
      [] c = "h"  -> 104
      [] c = "i"  -> 105
      [] c = "k"  -> 107
      [] c = "l"  -> 108
      [] c = "m"  -> 109
      [] c = "n"  -> 110
      [] c = "o"  -> 111
      [] c = "p"  -> 112
      [] c = "q"  -> 113
      [] c = "r"  -> 114
      [] c = "s"  -> 115
      [] c = "t"  -> 116
      [] c = "u"  -> 117
      [] c = "v"  -> 118
      [] c = "w"  -> 119
      [] c = "x"  -> 120
      [] OTHER    -> 122

\* What Python's str.strip() and the regular expression \s count as white.
IsWhitespace(c) == c \in {" ", "\t"}

\* Case folding of re.IGNORECASE.
Lower(c) == IF c = "A" THEN "a" ELSE c

RECURSIVE ReplaceSpace(_)
\* s.replace(" ", ""): removes the space character and nothing else.
ReplaceSpace(s) ==
    IF s = << >> THEN << >>
    ELSE IF Head(s) = " " THEN ReplaceSpace(Tail(s))
         ELSE << Head(s) >> \o ReplaceSpace(Tail(s))

RECURSIVE LStrip(_)
LStrip(s) ==
    IF s # << >> /\ IsWhitespace(Head(s)) THEN LStrip(Tail(s)) ELSE s

RECURSIVE RStrip(_)
RStrip(s) ==
    IF s # << >> /\ IsWhitespace(s[Len(s)])
    THEN RStrip(SubSeq(s, 1, Len(s) - 1)) ELSE s

\* s.strip(): removes leading and trailing whitespace of every kind.
Strip(s) == RStrip(LStrip(s))

\* sub in s (Python's substring test on str).
Contains(s, sub) ==
    \E i \in 1..(Len(s) - Len(sub) + 1) : SubSeq(s, i, i + Len(sub) - 1) = sub

\* s.startswith(prefix)
StartsWith(s, prefix) ==
    Len(prefix) <= Len(s) /\ SubSeq(s, 1, Len(prefix)) = prefix

RECURSIVE StrLess(_, _)
\* s < t on Python str: lexicographic by code point.
StrLess(s, t) ==
    IF t = << >> THEN FALSE
    ELSE IF s = << >> THEN TRUE
    ELSE IF Head(s) # Head(t) THEN Code(Head(s)) < Code(Head(t))
    ELSE StrLess(Tail(s), Tail(t))

RECURSIVE SortedList(_)
\* sorted(list(S)) for a set S of strings.
SortedList(S) ==
    IF S = {} THEN << >>
    ELSE LET m == CHOOSE x \in S : \A y \in S \ {x} : StrLess(x, y)
         IN  << m >> \o SortedList(S \ {m})

Range(s) == { s[i] : i \in 1..Len(s) }

RECURSIVE JoinLines(_)
\* "\n".join(parts)
JoinLines(parts) ==
    IF parts = << >> THEN << >>
    ELSE IF Len(parts) = 1 THEN parts[1]
    ELSE parts[1] \o << "\n" >> \o JoinLines(Tail(parts))

RECURSIVE JoinWith(_, _)
\* sep.join(parts)
JoinWith(parts, sep) ==
    IF parts = << >> THEN << >>
    ELSE IF Len(parts) = 1 THEN parts[1]
    ELSE parts[1] \o sep \o JoinWith(Tail(parts), sep)

RECURSIVE SelectSeqBy(_, _)
SelectSeqBy(s, S) ==
    IF s = << >> THEN << >>
    ELSE IF Head(s) \in S THEN << Head(s) >> \o SelectSeqBy(Tail(s), S)
         ELSE SelectSeqBy(Tail(s), S)

-----------------------------------------------------------------------------
(* fuzz.partial_ratio of thefuzz, which hands the two strings unprocessed  *)
(* to rapidfuzz.fuzz.partial_ratio and rounds the score to an integer.     *)

RECURSIVE LCS(_, _)
\* Length of a longest common subsequence: the Indel similarity of rapidfuzz.
LCS(s, t) ==
    IF s = << >> \/ t = << >> THEN 0
    ELSE IF Head(s) = Head(t) THEN 1 + LCS(Tail(s), Tail(t))
    ELSE LET a == LCS(Tail(s), t)
             b == LCS(s, Tail(t))
         IN  IF a >= b THEN a ELSE b

\* int(round(100 * (1 - indel / (len1 + len2)))) = int(round(200*lcs/(len1+len2)))
Ratio(s, t) ==
    IF Len(s) + Len(t) = 0 THEN 100
    ELSE (400 * LCS(s, t) + (Len(s) + Len(t))) \div (2 * (Len(s) + Len(t)))

SetMax(S) == IF S = {} THEN 0 ELSE CHOOSE x \in S : \A y \in S : y <= x

\* rapidfuzz's _partial_ratio_impl(s1, s2) for len(s1) <= len(s2): the best
\* ratio of s1 against the prefixes of s2 shorter than s1, the windows of s2 as
\* long as s1 and the suffixes of s2 no longer than s1; a window is tried only
\* when its last (prefixes, windows) or first (suffixes) character occurs in s1.
PartialRatioImpl(s1, s2) ==
    LET len1 == Len(s1)
        len2 == Len(s2)
        cs   == Range(s1)
        pre  == { Ratio(s1, SubSeq(s2, 1, i)) :
                    i \in { j \in 1..(len1 - 1) : s2[j] \in cs } }
        win  == { Ratio(s1, SubSeq(s2, i + 1, i + len1)) :
                    i \in { j \in 0..(len2 - len1 - 1) :
                              len1 > 0 /\ s2[j + len1] \in cs } }
        suf  == { Ratio(s1, SubSeq(s2, i + 1, len2)) :
                    i \in { j \in (len2 - len1)..(len2 - 1) : s2[j + 1] \in cs } }
    IN  SetMax(pre \cup win \cup suf)

\* fuzz.partial_ratio(s1, s2): the shorter string is aligned inside the longer
\* one; strings of equal length are tried both ways.
PartialRatio(s1, s2) ==
    IF s1 = << >> /\ s2 = << >> THEN 100
    ELSE IF Len(s1) < Len(s2) THEN PartialRatioImpl(s1, s2)
    ELSE IF Len(s2) < Len(s1) THEN PartialRatioImpl(s2, s1)
    ELSE LET a == PartialRatioImpl(s1, s2)
             b == PartialRatioImpl(s2, s1)
         IN  IF a >= b THEN a ELSE b

-----------------------------------------------------------------------------
(* EntityLinker: WelfareChatbot._detect_fast_track_keyword                 *)

FUZZY_THRESHOLD == 80
MIN_EXACT_LEN == 2

\* The exact pass: the qualifying test of one known name.
ExactQualifies(normalized_message, service_name) ==
    /\ service_name # << >>
    /\ Contains(normalized_message, ReplaceSpace(service_name))
    /\ Len(ReplaceSpace(service_name)) > MIN_EXACT_LEN

\* A variant that prefers the longest qualifying name.
ExactPassLongest(normalized_message, names) ==
    LET hits == { i \in 1..Len(names) : ExactQualifies(normalized_message, names[i]) }
    IN  IF hits = {} THEN None
        ELSE names[CHOOSE i \in hits :
                     \A j \in hits :
                        \/ Len(ReplaceSpace(names[j])) < Len(ReplaceSpace(names[i]))
                        \/ (Len(ReplaceSpace(names[j])) = Len(ReplaceSpace(names[i]))
                            /\ i <= j)]

\* The exact pass: the first qualifying name in list order, or None.
ExactPass(normalized_message, names) ==
    LET hits == { i \in 1..Len(names) : ExactQualifies(normalized_message, names[i]) }
    IN  IF hits = {} THEN None
        ELSE names[CHOOSE i \in hits : \A j \in hits : i <= j]

\* scores[name] of the fuzzy pass.
FuzzyScore(normalized_message, service_name) ==
    PartialRatio(normalized_message, ReplaceSpace(service_name))

\* max(scores, key=scores.get): the first name of the list with the top score.
BestMatch(normalized_message, names) ==
    LET keys == { i \in 1..Len(names) : names[i] # << >> }
        top  == SetMax({ FuzzyScore(normalized_message, names[i]) : i \in keys })
    IN  names[CHOOSE i \in keys :
                /\ FuzzyScore(normalized_message, names[i]) = top
                /\ \A j \in keys :
                     FuzzyScore(normalized_message, names[j]) = top => i <= j]

\* A variant that rejects a score equal to the threshold.
AcceptScoreStrict(score) == score > FUZZY_THRESHOLD

\* Line 80: the threshold test of the fuzzy pass.
AcceptScore(score) == score >= FUZZY_THRESHOLD

\* A variant of the fuzzy pass with the length guard of the exact pass: it
\* scores only the names longer than the minimum.
FuzzyPassLongNamesOnly(normalized_message, names) ==
    LET long_names ==
            SelectSeq(names, LAMBDA name : Len(ReplaceSpace(name)) > MIN_EXACT_LEN)
    IN  IF long_names = << >> THEN None
        ELSE LET best == BestMatch(normalized_message, long_names)
             IN  IF AcceptScore(FuzzyScore(normalized_message, best))
                 THEN best ELSE None

\* The fuzzy pass: the best match when its score reaches the threshold.
FuzzyPass(normalized_message, names) ==
    IF { i \in 1..Len(names) : names[i] # << >> } = {} THEN None
    ELSE LET best == BestMatch(normalized_message, names)
         IN  IF AcceptScore(FuzzyScore(normalized_message, best))
             THEN best ELSE None

DetectFastTrackKeyword(user_message, names) ==
    IF names = << >> THEN None
    ELSE LET normalized_message == ReplaceSpace(user_message)
             exact == ExactPass(normalized_message, names)
         IN  IF exact # None THEN exact
             ELSE FuzzyPass(normalized_message, names)

-----------------------------------------------------------------------------
(* QueryReducer: the re.sub of _get_intelligent_response (lines 252-254).  *)
(* The pattern is the space-stripped name with \s* after every character,  *)
(* none of them escaped.  Over this alphabet "(" and ")" delimit a group   *)
(* (and must balance), "?" makes the \s* before it lazy (and has nothing   *)
(* to repeat when it comes first); every other character is a literal.     *)

RECURSIVE ParenDepthOk(_, _)
ParenDepthOk(p, depth) ==
    IF p = << >> THEN depth = 0
    ELSE IF Head(p) = "(" THEN ParenDepthOk(Tail(p), depth + 1)
    ELSE IF Head(p) = ")" THEN depth > 0 /\ ParenDepthOk(Tail(p), depth - 1)
    ELSE ParenDepthOk(Tail(p), depth)

\* re.compile raises re.error on this pattern text.
PatternError(pattern_text) ==
    \/ ~ParenDepthOk(pattern_text, 0)
    \/ (pattern_text # << >> /\ Head(pattern_text) = "?")

RECURSIVE PatternElements(_)
\* The pattern as a sequence of elements: a literal character, or "ws" for \s*.
PatternElements(pattern_text) ==
    IF pattern_text = << >> THEN << >>
    ELSE (IF Head(pattern_text) \in {"(", ")", "?"}
          THEN << [ws |-> TRUE, ch |-> " "] >>
          ELSE << [ws |-> FALSE, ch |-> Head(pattern_text)],
                  [ws |-> TRUE, ch |-> " "] >>)
         \o PatternElements(Tail(pattern_text))

RECURSIVE WhiteRun(_, _)
\* Number of whitespace characters of t from position i on.
WhiteRun(t, i) ==
    IF i <= Len(t) /\ IsWhitespace(t[i]) THEN 1 + WhiteRun(t, i + 1) ELSE 0

RECURSIVE MatchFrom(_, _, _, _)
RECURSIVE MatchWs(_, _, _, _, _)
\* The backtracking matcher: the position after the match of the elements
\* k.. of els at position i of t, or 0 when there is none.
MatchFrom(els, k, t, i) ==
    IF k > Len(els) THEN i
    ELSE IF els[k].ws THEN MatchWs(els, k, t, i + WhiteRun(t, i), i)
    ELSE IF i <= Len(t) /\ Lower(t[i]) = Lower(els[k].ch)
         THEN MatchFrom(els, k + 1, t, i + 1)
         ELSE 0
\* \s* is greedy: the whole run of whitespace first, then shorter ones.
MatchWs(els, k, t, j, lo) ==
    LET e == MatchFrom(els, k + 1, t, j)
    IN  IF e # 0 THEN e
        ELSE IF j > lo THEN MatchWs(els, k, t, j - 1, lo) ELSE 0

\* re.sub(pattern, '', text, count=1, flags=re.IGNORECASE): the leftmost match
\* is cut out; no match leaves the text as it is.
ReSubFirst(els, text) ==
    LET starts == { s \in 1..(Len(text) + 1) : MatchFrom(els, 1, text, s) # 0 }
    IN  IF starts = {} THEN text
        ELSE LET s == CHOOSE x \in starts : \A y \in starts : x <= y
                 e == MatchFrom(els, 1, text, s)
             IN  SubSeq(text, 1, s - 1) \o SubSeq(text, e, Len(text))

\* Lines 252-254: the remaining query after the removal of the detected name,
\* or the re.error the unescaped pattern raises.
ReduceQuery(query, service_name) ==
    LET pattern_text == ReplaceSpace(service_name)
    IN  IF PatternError(pattern_text) THEN [error |-> TRUE, text |-> query]
        ELSE [error |-> FALSE,
              text |-> Strip(ReSubFirst(PatternElements(pattern_text), query))]

-----------------------------------------------------------------------------
(* CatalogStore: DBService over its loaded documents.  A document is a     *)
(* record of its page content and the metadata the pipeline reads; a       *)
(* metadata key the document does not carry is None.  Batches hold         *)
(* documents by their position in all_docs (Python lists of references).   *)

\* A metadata key that is there with the value None (JSON null).
Null == << "null" >>

\* What json.loads(page_content) gives: a value of JSON as a tree.  A node is
\* a string, a number or a boolean (val is the text str() gives for it), null,
\* a mapping (its keys in order, items their values) or a sequence.
JNode(type, val, keys, items) ==
    [type |-> type, val |-> val, keys |-> keys, items |-> items]

JStr(text) == JNode("str", text, << >>, << >>)
JNum(text) == JNode("num", text, << >>, << >>)
JBool(text) == JNode("bool", text, << >>, << >>)
JNull == JNode("null", << >>, << >>, << >>)
JDict(keys, items) == JNode("dict", << >>, keys, items)
JList(items) == JNode("list", << >>, << >>, items)

\* json.loads raises: the page content is no JSON.
NotJson == JNode("raise", << >>, << >>, << >>)

PY_TRUE == << "T", "r", "u", "e" >>
PY_ZERO == << "0" >>

\* The documents the pipeline searches: page content that is plain text and
\* the metadata the lookups read.
Doc(body, major, minor, name, target, item) ==
    [body |-> body, major |-> major, minor |-> minor, name |-> name,
     target |-> target, item |-> item,
     overview |-> None, detail |-> None, detail_alt |-> None,
     parsed |-> NotJson, method |-> None, contact |-> None]

\* A document with the metadata the context assembly renders: the overview,
\* the two support-detail keys, the application method and the contact, and
\* what its page content parses to.
RichDoc(name, overview, target, detail, detail_alt, body, parsed, method, contact) ==
    [body |-> body, major |-> None, minor |-> None, name |-> name,
     target |-> target, item |-> None,
     overview |-> overview, detail |-> detail, detail_alt |-> detail_alt,
     parsed |-> parsed, method |-> method, contact |-> contact]

\* The fixed values the pipeline searches for (abbreviated, same make-up:
\* the fallback entry name has inner spaces and ends in "?").
CRISIS_MAJOR == << "1", "0" >>
FALLBACK_NAME == << "w", " ", "h", "?" >>
FALLBACK_ITEM == << "s" >>

\* A variant that tests equality instead of the prefix.
MetadataMatchEqual(metadata_value, value) ==
    metadata_value # None /\ metadata_value = value

\* One key/value test of DBService.metadata_search.
MetadataMatch(metadata_value, value) ==
    metadata_value # None /\ StartsWith(metadata_value, value)

\* DBService.metadata_search(filter_dict): the positions, in catalog order, of
\* the documents matching every key of the filter.
MetadataSearch(docs, filter_dict) ==
    SelectSeqBy([i \in 1..Len(docs) |-> i],
                { i \in 1..Len(docs) :
                    \A key \in DOMAIN filter_dict :
                        MetadataMatch(docs[i][key], filter_dict[key]) })

\* A variant in which a lookup leaves only its matches in the catalog.
DocsAfterSearchKeepsMatches(docs, filter_dict) ==
    LET matched_docs == MetadataSearch(docs, filter_dict)
    IN  [k \in 1..Len(matched_docs) |-> docs[matched_docs[k]]]

\* What DBService.metadata_search leaves in self.all_docs: it reads the list
\* and the metadata and collects the matches in a list of its own.
DocsAfterSearch(docs, filter_dict) == docs

RECURSIVE DocsAfterSearches(_, _)
\* The catalog after the lookups of a step, one after the other.
DocsAfterSearches(docs, filters) ==
    IF filters = << >> THEN docs
    ELSE DocsAfterSearches(DocsAfterSearch(docs, Head(filters)), Tail(filters))

\* DBService.get_schema_context()['service_names']
ServiceNames(docs) ==
    IF docs = << >> THEN << >>
    ELSE SortedList({ docs[i].name : i \in { j \in 1..Len(docs) :
                        docs[j].name # None /\ docs[j].name # << >> } })

-----------------------------------------------------------------------------
(* The catalogs, the utterances and the planner outputs of the model.      *)

NameAbc   == << "a", "b", "c" >>
NameAbcd  == << "a", "b", "c", "d" >>
NameParen == << "a", "b", "(" >>
MinorG    == << "g" >>
MinorH    == << "h" >>

CatalogA ==
    << Doc(<< "p" >>, << "2" >>, MinorG, NameAbc, << "x", " ", "e" >>, << "i" >>),
       Doc(<< "q" >>, CRISIS_MAJOR, MinorH, NameAbcd, None, << "i" >>),
       Doc(<< "r" >>, << "2" >>, MinorG, NameAbc, << "e" >>, << "n" >>) >>

CatalogB ==
    << Doc(<< "u" >>, None, None, FALLBACK_NAME, None, FALLBACK_ITEM \o << "x" >>),
       Doc(<< "v" >>, << "2" >>, MinorG, NameParen, << "x" >>, << "i" >>) >>

\* Records of the crisis chapter that render alike: two of one entry name, one
\* of another, one with a navigational entry name and one without a name.
NameNav == << "x", "t", "c" >>

CatalogC ==
    << Doc(<< "p" >>, CRISIS_MAJOR, MinorG, NameAbc, << "e" >>, << "i" >>),
       Doc(<< "p" >>, CRISIS_MAJOR, MinorG, NameAbc, << "e" >>, << "n" >>),
       Doc(<< "p" >>, CRISIS_MAJOR, MinorH, NameAbcd, << "e" >>, << "i" >>),
       Doc(<< "q" >>, CRISIS_MAJOR, MinorH, NameNav, << "e" >>, << "i" >>),
       Doc(<< "r" >>, CRISIS_MAJOR, MinorH, None, << "e" >>, << "i" >>) >>

\* A catalog whose crisis chapter holds only Records that get no group (a
\* navigational entry name, no entry name), and an entry of another chapter
\* whose name has two characters.
NameShort == << "x", "x" >>

CatalogD ==
    << Doc(<< "q" >>, CRISIS_MAJOR, MinorH, NameNav, << "e" >>, << "i" >>),
       Doc(<< "r" >>, CRISIS_MAJOR, MinorH, None, << "e" >>, << "i" >>),
       Doc(<< "p" >>, << "2" >>, MinorG, NameShort, << "e" >>, << "i" >>) >>

Catalogs == { << >>, CatalogA, CatalogB, CatalogC, CatalogD }

Words ==
    { NameAbc, << "a", " ", "b", "c" >>, NameAbcd, << "a", "b" >>,
      << "a", "\t", "b", "c" >>, NameParen, << "x" >>, << "A", "b", "c" >> }

SeqUpTo(S, n) == UNION { [1..k -> S] : k \in 0..n }

\* The characters of the free texts.
TextAlphabet == { "a", "b", "c", "d", " ", "\t", "(" }

RECURSIVE JoinWords(_)
JoinWords(ws) ==
    IF ws = << >> THEN << >>
    ELSE IF Len(ws) = 1 THEN ws[1]
    ELSE ws[1] \o << " " >> \o JoinWords(Tail(ws))

Utterances == { JoinWords(ws) : ws \in SeqUpTo(Words, MaxWords) }

\* A session of n turns that ends in a user turn, the roles alternating; the
\* content of an earlier turn tells its position.
Digits == << "1", "2", "3", "4", "5", "6", "7", "8", "9" >>

LongSession(n) ==
    [k \in 1..n |->
        [role |-> IF (n - k) % 2 = 0 THEN "user" ELSE "assistant",
         content |-> IF k = n THEN << "x" >> ELSE << Digits[k] >>]]

\* The sessions a caller hands to chat(): no turn at all, a trailing user
\* turn (its content padded with whitespace, as typed), or a conversation of
\* several turns.
Sessions ==
    { << >> } \cup
    { << [role |-> "user", content |-> << " " >> \o u \o << "\t" >>] >> :
        u \in Utterances } \cup
    { LongSession(n) : n \in 2..MaxTurns }

\* _format_chat_history, lines 44-52.  The fixed text of line 47 and the
\* two role labels of line 50 (abbreviated).
NO_HISTORY == << "-" >>
ROLE_USER == << "U" >>
ROLE_AI == << "G" >>

\* The slice messages[-6:-1] takes its start six turns from the end.
HISTORY_SLICE_START == 6

\* A variant of the slice that runs to the end of the list: messages[-6:]
RecentTurnsWithTrailing(msgs) ==
    SubSeq(msgs,
           (IF Len(msgs) > HISTORY_SLICE_START
            THEN Len(msgs) - HISTORY_SLICE_START ELSE 0) + 1,
           Len(msgs))

\* messages[-6:-1]
RecentTurns(msgs) ==
    SubSeq(msgs,
           (IF Len(msgs) > HISTORY_SLICE_START
            THEN Len(msgs) - HISTORY_SLICE_START ELSE 0) + 1,
           Len(msgs) - 1)

\* Lines 50-51: one line of the history.
HistoryLine(msg) ==
    (IF msg.role = "user" THEN ROLE_USER ELSE ROLE_AI)
    \o << ":", " " >> \o msg.content

FormatChatHistory(msgs) ==
    IF Len(msgs) <= 1 THEN NO_HISTORY
    ELSE JoinLines([k \in 1..Len(RecentTurns(msgs)) |->
                       HistoryLine(RecentTurns(msgs)[k])])

\* One element of the planner's search_plan list.
Step(kind, priority, base_condition, filters_kind, minor) ==
    [kind |-> kind, priority |-> priority, base_condition |-> base_condition,
     filters |-> [kind |-> filters_kind, minor |-> minor]]

StepChoices ==
    { Step("dict", 2, << >>, "dict", << MinorG >>),
      Step("dict", 1, << << "x", "e" >> >>, "dict", << MinorH, MinorG >>),
      Step("dict", 1, << >>, "missing", << >>),
      Step("dict", 1, << << "e" >> >>, "dict", << >>),
      Step("dict", 1, << >>, "dict", << MinorG, MinorG >>),
      Step("dict", 1, << >>, "notdict", << >>),
      Step("str", 1, << >>, "missing", << >>) }

\* The intent the except clause of _generate_search_plan writes (line 227),
\* and the intent of a plan the analysis chain authored.
ANALYSIS_FAILED == "analysis_failed"
AUTHORED == "authored"

\* A value the planner hands back: its JSON type, its "search_plan" entry,
\* its "intent" and its "semantic_keywords" entry.
Analysis(kind, plan_kind, items, intent, semantic_keywords) ==
    [kind |-> kind, search_plan |-> [kind |-> plan_kind, items |-> items],
     intent |-> intent, semantic_keywords |-> semantic_keywords]

\* What the analysis chain hands back: an exception (invocation error or
\* unparsable output), or a parsed JSON value of any shape.
PlannerOutcomes ==
    { Analysis("raise", "missing", << >>, AUTHORED, << >>),
      Analysis("list", "missing", << >>, AUTHORED, << >>),
      Analysis("dict", "missing", << >>, AUTHORED, << >>),
      Analysis("dict", "str", << >>, AUTHORED, << >>) }
    \cup
    { Analysis("dict", "list", items, AUTHORED, << >>) :
        items \in SeqUpTo(StepChoices, MaxPlanSteps) }

-----------------------------------------------------------------------------
(* The turn: WelfareChatbot.chat and _get_intelligent_response.            *)

NORMAL == "NORMAL"

\* chat(), line 42: the fixed answer of the top-level except clause.
GenericApology == [kind |-> "generic_apology", mode |-> NORMAL]
\* _get_intelligent_response, line 345: the final safety net.
NotFoundApology == [kind |-> "not_found_apology", mode |-> NORMAL]
\* What a synthesis chain returns, with the dialogue mode.
Answer(template) == [kind |-> template, mode |-> NORMAL]
\* An exception that leaves chat() and reaches its caller.
Propagated == [kind |-> "exception", mode |-> "none"]
NoResult == [kind |-> "pending", mode |-> "none"]

NoSynthesis == [kind |-> "none", docs |-> << >>]
NoAnalysis == Analysis("none", "missing", << >>, "none", << >>)

Init ==
    /\ all_docs \in Catalogs
    /\ service_names_list = ServiceNames(all_docs)
    /\ messages = << >>
    /\ pc = "idle"
    /\ remaining_query = << >>
    /\ detected_service_name = None
    /\ detections = << >>
    /\ fast_track_docs = << >>
    /\ intelligent_docs = << >>
    /\ query_analysis = NoAnalysis
    /\ search_plan = << >>
    /\ step_index = 0
    /\ planner_calls = << >>
    /\ crisis_support_docs = << >>
    /\ final_docs = << >>
    /\ lookups = << >>
    /\ synthesis = NoSynthesis
    /\ result = NoResult
    /\ chat_history = << >>
    /\ context_list = << >>
    /\ context_string = << >>

\* A turn that ends: what chat() returns, or the exception it lets through.
Finish(r) ==
    /\ pc' = "done"
    /\ result' = r

\* chat(), lines 32-37, up to the first statement of the fast-track loop.
\* messages[-1] is read before the try block is entered.
Chat ==
    /\ pc = "idle"
    /\ \E session \in Sessions :
        /\ messages' = session
        /\ IF session = << >>
           THEN /\ Finish(Propagated)
                /\ UNCHANGED << remaining_query, chat_history >>
           ELSE /\ remaining_query' = Strip(Strip(session[Len(session)].content))
                /\ chat_history' = FormatChatHistory(session)
                /\ pc' = "fast_track"
                /\ UNCHANGED result
    /\ UNCHANGED << all_docs, service_names_list, detected_service_name,
                    detections, fast_track_docs, intelligent_docs,
                    query_analysis, search_plan, step_index, planner_calls,
                    crisis_support_docs, final_docs, lookups, synthesis,
                    context_list, context_string >>

\* The lookups a step of the turn makes: those it adds to the record.
NewLookups == SubSeq(lookups', Len(lookups) + 1, Len(lookups'))

\* Lines 239-249 and 260-261: the head of the loop, the detection and the
\* lookup of the detected name.
FastTrackDetect ==
    /\ pc = "fast_track"
    /\ IF remaining_query = << >>
       THEN /\ pc' = "plan"
            /\ UNCHANGED << detected_service_name, detections,
                            fast_track_docs, lookups >>
       ELSE LET name == DetectFastTrackKeyword(remaining_query, service_names_list)
                filter_dict == [name |-> name]
            IN  /\ detected_service_name' = name
                /\ IF name = None
                   THEN /\ pc' = "plan"
                        /\ UNCHANGED << detections, fast_track_docs, lookups >>
                   ELSE /\ pc' = "reduce"
                        /\ detections' = Append(detections, name)
                        /\ lookups' = Append(lookups, filter_dict)
                        /\ fast_track_docs' =
                             fast_track_docs \o MetadataSearch(all_docs, filter_dict)
    /\ all_docs' = DocsAfterSearches(all_docs, NewLookups)
    /\ UNCHANGED << service_names_list, messages, remaining_query,
                    intelligent_docs, query_analysis, search_plan, step_index,
                    planner_calls, crisis_support_docs, final_docs, synthesis,
                    result,
                    chat_history, context_list, context_string >>

\* Lines 251-259: the removal of the detected name and its judgement.
\* A variant of the test that never finds the text unchanged.
RemovalNeverFails(query_before_removal, query_after) == FALSE

\* Line 256: the reduction left the text as it was.
RemovalFailed(query_before_removal, query_after) ==
    query_after = query_before_removal

FastTrackReduce ==
    /\ pc = "reduce"
    /\ LET reduced == ReduceQuery(remaining_query, detected_service_name)
       IN  IF reduced.error
           THEN /\ Finish(GenericApology)
                /\ UNCHANGED remaining_query
           ELSE IF RemovalFailed(remaining_query, reduced.text)
           THEN /\ pc' = "plan"
                /\ UNCHANGED << remaining_query, result >>
           ELSE /\ pc' = "fast_track"
                /\ remaining_query' = reduced.text
                /\ UNCHANGED result
    /\ UNCHANGED << all_docs, service_names_list, messages,
                    detected_service_name, detections, fast_track_docs,
                    intelligent_docs, query_analysis, search_plan, step_index,
                    planner_calls, crisis_support_docs, final_docs, lookups,
                    synthesis,
                    chat_history, context_list, context_string >>

\* _generate_search_plan, lines 218-227: what the caller receives.  The
\* except clause answers an exception of the chain with a mapping that has no
\* "search_plan" key; a parsed value of any shape is returned as it is.
GenerateSearchPlan(outcome, user_message) ==
    IF outcome.kind = "raise"
    THEN Analysis("dict", "missing", << >>, ANALYSIS_FAILED, << user_message >>)
    ELSE outcome

\* A variant that hands the planner the utterance as it came in.
PlannerQuestionOriginal(user_message, remaining) == user_message

\* Line 268: the text the planner is asked about.
PlannerQuestion(user_message, remaining) == remaining

\* Lines 264-273 and 317-318: the planner call and the reading of its plan.
Plan ==
    /\ pc = "plan"
    /\ IF remaining_query = << >>
       THEN /\ pc' = "crisis"
            /\ UNCHANGED << query_analysis, search_plan, step_index,
                            planner_calls, result >>
       ELSE \E outcome \in PlannerOutcomes :
            LET question == PlannerQuestion(Strip(messages[Len(messages)].content),
                                            remaining_query)
                plan == GenerateSearchPlan(outcome, question).search_plan
            IN  /\ planner_calls' = Append(planner_calls, question)
                /\ query_analysis' = GenerateSearchPlan(outcome, question)
                /\ IF query_analysis'.kind # "dict" \/ plan.kind = "str"
                   THEN \* no .get on the value, or on the elements of the plan
                        /\ Finish(GenericApology)
                        /\ UNCHANGED << search_plan, step_index >>
                   ELSE IF plan.kind = "missing" \/ plan.items = << >>
                   THEN /\ pc' = "crisis"
                        /\ UNCHANGED << search_plan, step_index, result >>
                   ELSE /\ pc' = "steps"
                        /\ search_plan' = plan.items
                        /\ step_index' = 1
                        /\ UNCHANGED result
    /\ UNCHANGED << all_docs, service_names_list, messages, remaining_query,
                    detected_service_name, detections, fast_track_docs,
                    intelligent_docs, crisis_support_docs, final_docs, lookups,
                    synthesis,
                    chat_history, context_list, context_string >>

-----------------------------------------------------------------------------
(* PriorityFilterEngine: the loop over the plan, lines 274-314.            *)

RECURSIVE ConcatAll(_)
ConcatAll(seqs) ==
    IF seqs = << >> THEN << >> ELSE Head(seqs) \o ConcatAll(Tail(seqs))

RECURSIVE SortByPriority(_)
\* sorted(plan_list, key=priority): stable, lowest priority value first.
SortByPriority(plan_list) ==
    IF plan_list = << >> THEN << >>
    ELSE LET m == CHOOSE i \in 1..Len(plan_list) :
                    \A j \in 1..Len(plan_list) :
                       \/ plan_list[i].priority < plan_list[j].priority
                       \/ (plan_list[i].priority = plan_list[j].priority /\ i <= j)
         IN  << plan_list[m] >>
             \o SortByPriority(SubSeq(plan_list, 1, m - 1)
                               \o SubSeq(plan_list, m + 1, Len(plan_list)))

\* A variant that works through the plan in the order of its priority field.
StepAtByPriority(plan_list, i) == SortByPriority(plan_list)[i]

\* The element of the plan the i-th iteration of `enumerate` works on.
StepAt(plan_list, i) == plan_list[i]

\* plan.get(...) on an element that is no mapping, or .get('중분류') on a
\* 'filters' value that is no mapping, raises AttributeError.
StepRaises(step) == step.kind # "dict" \/ step.filters.kind = "notdict"

\* plan.get('filters', {}).get('중분류', [])
MiddleCategories(step) ==
    IF step.filters.kind = "dict" THEN step.filters.minor ELSE << >>

\* Lines 290-292: one metadata_search per listed category, results appended.
CategoryDocs(docs, middle_categories) ==
    ConcatAll([k \in 1..Len(middle_categories) |->
                  MetadataSearch(docs, [minor |-> middle_categories[k]])])

\* A variant that compares against the target text as stored, spaces kept.
PassesBaseConditionKeepSpaces(doc, base_conditions) ==
    LET target_info == IF doc.target = None THEN << >> ELSE doc.target
    IN  \E k \in 1..Len(base_conditions) :
            Contains(target_info, ReplaceSpace(base_conditions[k]))

\* Lines 305-307: the test of one document against the base conditions.
PassesBaseCondition(doc, base_conditions) ==
    LET target_info == ReplaceSpace(IF doc.target = None THEN << >> ELSE doc.target)
    IN  \E k \in 1..Len(base_conditions) :
            Contains(target_info, ReplaceSpace(base_conditions[k]))

\* Lines 302-310: the documents of Stage A that survive Stage B.
FirstFilteredDocs(docs, category_docs, base_conditions) ==
    IF base_conditions # << >>
    THEN SelectSeqBy(category_docs,
                     { i \in 1..Len(docs) : PassesBaseCondition(docs[i], base_conditions) })
    ELSE category_docs

\* A variant that, without a middle category, filters the whole catalog.
StepDocsUnfiltered(docs, step) ==
    LET middle_categories == MiddleCategories(step)
    IN  FirstFilteredDocs(docs,
                          IF middle_categories = << >>
                          THEN [i \in 1..Len(docs) |-> i]
                          ELSE CategoryDocs(docs, middle_categories),
                          step.base_condition)

\* What one step adds to intelligent_docs.
StepDocs(docs, step) ==
    LET middle_categories == MiddleCategories(step)
    IN  IF middle_categories = << >> THEN << >>
        ELSE FirstFilteredDocs(docs, CategoryDocs(docs, middle_categories),
                               step.base_condition)

\* The metadata_search calls of one step.
StepLookups(step) ==
    [k \in 1..Len(MiddleCategories(step)) |-> [minor |-> MiddleCategories(step)[k]]]

\* One iteration of the loop over search_plan.
ExecStep ==
    /\ pc = "steps"
    /\ LET step == StepAt(search_plan, step_index)
       IN  IF StepRaises(step)
           THEN /\ Finish(GenericApology)
                /\ UNCHANGED << intelligent_docs, step_index, lookups >>
           ELSE /\ intelligent_docs' = intelligent_docs \o StepDocs(all_docs, step)
                /\ lookups' = lookups \o StepLookups(step)
                /\ step_index' = step_index + 1
                /\ pc' = IF step_index = Len(search_plan) THEN "crisis" ELSE "steps"
                /\ UNCHANGED result
    /\ all_docs' = DocsAfterSearches(all_docs, NewLookups)
    /\ UNCHANGED << service_names_list, messages, remaining_query,
                    detected_service_name, detections, fast_track_docs,
                    query_analysis, search_plan, planner_calls,
                    crisis_support_docs, final_docs, synthesis,
                    chat_history, context_list, context_string >>

-----------------------------------------------------------------------------
(* CrisisAugmenter, ResultAggregator, FallbackResolver and the synthesis.  *)

\* A variant of the key that looks at the page content alone.
DocKeyBodyOnly(doc) == << doc.body >>

\* Line 95: doc_key = (doc.page_content, doc.metadata.get('사업명'))
DocKey(doc) == << doc.body, doc.name >>

RECURSIVE MergeAndDeduplicateRec(_, _, _)
\* Lines 93-99: the first document of every key, in the order of arrival.
MergeAndDeduplicateRec(docs, batch, seen) ==
    IF batch = << >> THEN << >>
    ELSE LET doc_key == DocKey(docs[Head(batch)])
         IN  IF doc_key \in seen
             THEN MergeAndDeduplicateRec(docs, Tail(batch), seen)
             ELSE << Head(batch) >>
                  \o MergeAndDeduplicateRec(docs, Tail(batch), seen \cup {doc_key})

\* WelfareChatbot._merge_and_deduplicate(docs1, docs2)
MergeAndDeduplicate(docs, docs1, docs2) ==
    MergeAndDeduplicateRec(docs, docs1 \o docs2, {})

\* A variant that runs the dedup utility over the three batches.
FinalDocsDeduplicated(docs, fast, intelligent, crisis) ==
    MergeAndDeduplicate(docs, MergeAndDeduplicate(docs, fast, intelligent), crisis)

\* Line 328: the plain concatenation of the three batches.
FinalDocs(docs, fast, intelligent, crisis) == fast \o intelligent \o crisis

CrisisFilter == [major |-> CRISIS_MAJOR]
FallbackFilter == [name |-> FALLBACK_NAME, item |-> FALLBACK_ITEM]

\* Lines 320-329: the crisis lookup and the aggregation.
Crisis ==
    /\ pc = "crisis"
    /\ crisis_support_docs' = MetadataSearch(all_docs, CrisisFilter)
    /\ lookups' = Append(lookups, CrisisFilter)
    /\ final_docs' = FinalDocs(all_docs, fast_track_docs, intelligent_docs,
                               crisis_support_docs')
    /\ pc' = "respond"
    /\ all_docs' = DocsAfterSearches(all_docs, NewLookups)
    /\ UNCHANGED << service_names_list, messages, remaining_query,
                    detected_service_name, detections, fast_track_docs,
                    intelligent_docs, query_analysis, search_plan, step_index,
                    planner_calls, synthesis, result,
                    chat_history, context_list, context_string >>

\* ContextAssembler: _generate_final_answer, lines 375-411.  The markers of
\* line 378 (abbreviated; five of them, the last of three characters).
NAV_MARKERS ==
    << << "t", "c" >>, << "g", "d" >>, << "s", "t" >>, << "i", "n" >>,
       << "t", "e", "l" >> >>

\* any(keyword in service_name for keyword in [...])
IsNavigational(service_name) ==
    \E k \in 1..Len(NAV_MARKERS) : Contains(service_name, NAV_MARKERS[k])

\* A variant that drops only the documents without a name.
DroppedUnnamedOnly(doc) == doc.name = None \/ doc.name = << >>

\* Line 378: the documents that get neither group nor block.
Dropped(doc) ==
    doc.name = None \/ doc.name = << >> \/ IsNavigational(doc.name)

\* The labels of the parts (abbreviated): overview (line 385), target group
\* (386), support detail (387 and 388, one label for both keys), the rendered
\* JSON body (393), the page content that is no JSON (395), the application
\* method (397) and the key of the contact bullet (399).
LABEL_OVERVIEW == << "O", ":", " " >>
LABEL_TARGET == << "T", ":", " " >>
LABEL_DETAIL == << "D", ":", " " >>
LABEL_INFO == << "I", ":" >>
LABEL_BODY == << "B", ":", " " >>
LABEL_METHOD == << "M", ":", " " >>
CONTACT_KEY == << "C" >>

\* "  " * indent_level
Indent(indent_level) == [i \in 1..(2 * indent_level) |-> " "]

\* Python's truth value of a JSON value: "", 0, False, None, {} and [] are
\* false.
Truthy(data) ==
    CASE data.type = "str"  -> data.val # << >>
      [] data.type = "num"  -> data.val # PY_ZERO
      [] data.type = "bool" -> data.val = PY_TRUE
      [] data.type = "dict" -> data.keys # << >>
      [] data.type = "list" -> data.items # << >>
      [] OTHER -> FALSE

RECURSIVE FormatContent(_, _)
RECURSIVE DictParts(_, _, _)
RECURSIVE ListParts(_, _, _)

\* Lines 354-361: the parts of a mapping from its k-th key on.  A value that
\* is a string gives a bullet, a mapping or a sequence gives a header and
\* its rendering one level deeper, every other value gives nothing.
DictParts(data, indent_level, k) ==
    IF k > Len(data.keys) THEN << >>
    ELSE LET key == data.keys[k]
             value == data.items[k]
             indent == Indent(indent_level)
             formatted_sub_content == FormatContent(value, indent_level + 1)
         IN  (IF value.type = "str" /\ value.val # << >> /\ Strip(value.val) # << >>
              THEN << indent \o << "-", " " >> \o key \o << ":", " " >>
                        \o Strip(value.val) >>
              ELSE IF value.type \in {"dict", "list"} /\ formatted_sub_content # << >>
              THEN << indent \o << "-", " " >> \o key \o << ":" >>,
                      formatted_sub_content >>
              ELSE << >>)
             \o DictParts(data, indent_level, k + 1)

\* Lines 362-366: the parts of a sequence from its k-th item on.
ListParts(data, indent_level, k) ==
    IF k > Len(data.items) THEN << >>
    ELSE LET item == data.items[k]
             formatted_item == FormatContent(item, indent_level)
         IN  (IF Truthy(item) /\ formatted_item # << >>
              THEN << formatted_item >> ELSE << >>)
             \o ListParts(data, indent_level, k + 1)

\* _format_content(data, indent_level), lines 349-370.
FormatContent(data, indent_level) ==
    IF ~Truthy(data) THEN << >>
    ELSE IF data.type = "dict" THEN JoinLines(DictParts(data, indent_level, 1))
    ELSE IF data.type = "list" THEN JoinLines(ListParts(data, indent_level, 1))
    ELSE LET cleaned_data == Strip(data.val)
         IN  IF cleaned_data # << >>
             THEN Indent(indent_level) \o << "-", " " >> \o cleaned_data
             ELSE << >>

\* metadata.get(key) is there and true: a text that is not empty.
HasValue(value) == value # None /\ value # Null /\ value # << >>

\* What an f-string shows for a metadata value: None reads "None".
Shown(value) == IF value = Null THEN << "N", "o", "n", "e" >> ELSE value

\* A variant in which the later key replaces the line of the earlier one.
DetailPartsLastWins(doc) ==
    IF doc.detail_alt # None THEN << LABEL_DETAIL \o Shown(doc.detail_alt) >>
    ELSE IF HasValue(doc.detail) THEN << LABEL_DETAIL \o doc.detail >>
    ELSE << >>

\* Lines 387-388: the support-detail lines.  The first key is tested for its
\* value, the second for being in the metadata; each appends its own line.
DetailParts(doc) ==
    (IF HasValue(doc.detail) THEN << LABEL_DETAIL \o doc.detail >> ELSE << >>)
    \o (IF doc.detail_alt # None
        THEN << LABEL_DETAIL \o Shown(doc.detail_alt) >> ELSE << >>)

\* Lines 390-395: the page content, rendered if it parses as JSON and taken
\* as it is otherwise.
BodyParts(doc) ==
    IF doc.parsed.type = "raise"
    THEN IF doc.body # << >> THEN << LABEL_BODY \o doc.body >> ELSE << >>
    ELSE LET formatted_page_content == FormatContent(doc.parsed, 0)
         IN  IF formatted_page_content # << >>
             THEN << LABEL_INFO \o << "\n" >> \o formatted_page_content >>
             ELSE << >>

\* Lines 398-400: the contact, rendered as a mapping of one key.
ContactParts(doc) ==
    IF HasValue(doc.contact)
    THEN LET contact_info ==
                 FormatContent(JDict(<< CONTACT_KEY >>, << JStr(doc.contact) >>), 0)
         IN  IF contact_info # << >> THEN << contact_info >> ELSE << >>
    ELSE << >>

\* Lines 384-400: the parts of one document in the order of the code.
ContentParts(doc) ==
    (IF HasValue(doc.overview) THEN << LABEL_OVERVIEW \o doc.overview >> ELSE << >>)
    \o (IF HasValue(doc.target) THEN << LABEL_TARGET \o doc.target >> ELSE << >>)
    \o DetailParts(doc)
    \o BodyParts(doc)
    \o (IF HasValue(doc.method) THEN << LABEL_METHOD \o doc.method >> ELSE << >>)
    \o ContactParts(doc)

\* Line 402: the block of one document.
FullContentStr(doc) == JoinLines(ContentParts(doc))

\* A variant that adds a block only if no group holds it yet.
AddBlockOnceOverall(grouped, service_name, block) ==
    [g \in DOMAIN grouped |->
        IF /\ grouped[g].service_name = service_name
           /\ \A h \in DOMAIN grouped : block \notin grouped[h].contents
        THEN [grouped[g] EXCEPT !.contents = @ \cup {block}]
        ELSE grouped[g]]

\* Line 404: grouped_docs[service_name]['contents'].add(full_content_str)
AddBlock(grouped, service_name, block) ==
    [g \in DOMAIN grouped |->
        IF grouped[g].service_name = service_name
        THEN [grouped[g] EXCEPT !.contents = @ \cup {block}]
        ELSE grouped[g]]

\* A variant that puts a new group before the groups already there.
WithGroupInFront(grouped, service_name) ==
    IF \E g \in DOMAIN grouped : grouped[g].service_name = service_name
    THEN grouped
    ELSE << [service_name |-> service_name, contents |-> {}] >> \o grouped

\* Lines 381-382: a name not yet in grouped_docs gets its group, after the
\* groups already there (a dict keeps the order of insertion).
WithGroup(grouped, service_name) ==
    IF \E g \in DOMAIN grouped : grouped[g].service_name = service_name
    THEN grouped
    ELSE Append(grouped, [service_name |-> service_name, contents |-> {}])

RECURSIVE GroupedDocsRec(_, _, _)
\* Lines 376-404: grouped_docs, a dict in insertion order, as the sequence of
\* its items.
GroupedDocsRec(docs, batch, grouped) ==
    IF batch = << >> THEN grouped
    ELSE LET doc == docs[Head(batch)]
             with_group == WithGroup(grouped, doc.name)
             block == FullContentStr(doc)
         IN  IF Dropped(doc)
             THEN GroupedDocsRec(docs, Tail(batch), grouped)
             ELSE GroupedDocsRec(docs, Tail(batch),
                                 IF block # << >>
                                 THEN AddBlock(with_group, doc.name, block)
                                 ELSE with_group)

GroupedDocs(docs, batch) == GroupedDocsRec(docs, batch, << >>)

\* A variant that lists the blocks of a group from the greatest to the least.
BlocksDescending(contents) ==
    LET ascending == SortedList(contents)
    IN  [b \in 1..Len(ascending) |-> ascending[Len(ascending) + 1 - b]]

\* Line 408: sorted(list(data['contents']))
BlocksInOrder(contents) == SortedList(contents)

\* Lines 406-409: one entry per group, its blocks sorted.
ContextList(docs, batch) ==
    LET grouped == GroupedDocs(docs, batch)
    IN  [g \in DOMAIN grouped |->
            [service_name |-> grouped[g].service_name,
             blocks |-> BlocksInOrder(grouped[g].contents)]]

\* The header of a group (line 409) and the line between two groups (line
\* 411), abbreviated.
GROUP_HEADER == << "#", " " >>
GROUP_SEPARATOR == << "\n", "-", "\n" >>
BLOCK_SEPARATOR == << "\n", "\n" >>

\* Line 409: the text of one group, its header and its blocks.
GroupText(group) ==
    GROUP_HEADER \o group.service_name \o << "\n" >>
        \o JoinWith(group.blocks, BLOCK_SEPARATOR) \o << "\n" >>

\* Line 411: context_string
ContextString(groups) ==
    JoinWith([g \in DOMAIN groups |-> GroupText(groups[g])], GROUP_SEPARATOR)

\* A variant that also sends a batch without any group to the fallback tier.
NeedsFallbackWithoutGroups(batch) ==
    \A k \in 1..Len(batch) : Dropped(all_docs[batch[k]])

\* The empty batch sends the turn to the fallback tier (line 333).
NeedsFallback(batch) == batch = << >>

\* Lines 333-347 with _generate_fallback_answer and _generate_final_answer:
\* the synthesis chain either returns its text or raises (which the top-level
\* except clause of chat() answers).
Respond ==
    /\ pc = "respond"
    /\ IF NeedsFallback(final_docs)
       THEN LET fallback_docs == MetadataSearch(all_docs, FallbackFilter)
            IN  /\ lookups' = Append(lookups, FallbackFilter)
                /\ UNCHANGED << context_list, context_string >>
                /\ IF fallback_docs # << >>
                   THEN /\ synthesis' = [kind |-> "overview", docs |-> fallback_docs]
                        /\ \E raised \in BOOLEAN :
                             Finish(IF raised THEN GenericApology
                                    ELSE Answer("overview"))
                   ELSE /\ Finish(NotFoundApology)
                        /\ UNCHANGED synthesis
       ELSE /\ synthesis' = [kind |-> "final", docs |-> final_docs]
            /\ context_list' = ContextList(all_docs, final_docs)
            /\ context_string' = ContextString(ContextList(all_docs, final_docs))
            /\ \E raised \in BOOLEAN :
                 Finish(IF raised THEN GenericApology ELSE Answer("final"))
            /\ UNCHANGED lookups
    /\ all_docs' = DocsAfterSearches(all_docs, NewLookups)
    /\ UNCHANGED << service_names_list, messages, remaining_query,
                    detected_service_name, detections, fast_track_docs,
                    intelligent_docs, query_analysis, search_plan, step_index,
                    planner_calls, crisis_support_docs, final_docs,
                    chat_history >>

\* The caller takes the result; the locals of the turn are gone and the next
\* call of chat() starts afresh on the same chatbot.
Return ==
    /\ pc = "done"
    /\ pc' = "idle"
    /\ messages' = << >>
    /\ remaining_query' = << >>
    /\ detected_service_name' = None
    /\ detections' = << >>
    /\ fast_track_docs' = << >>
    /\ intelligent_docs' = << >>
    /\ query_analysis' = NoAnalysis
    /\ search_plan' = << >>
    /\ step_index' = 0
    /\ planner_calls' = << >>
    /\ crisis_support_docs' = << >>
    /\ final_docs' = << >>
    /\ lookups' = << >>
    /\ synthesis' = NoSynthesis
    /\ result' = NoResult
    /\ chat_history' = << >>
    /\ context_list' = << >>
    /\ context_string' = << >>
    /\ UNCHANGED << all_docs, service_names_list >>

Next ==
    \/ Chat
    \/ FastTrackDetect
    \/ FastTrackReduce
    \/ Plan
    \/ ExecStep
    \/ Crisis
    \/ Respond
    \/ Return

Spec == Init /\ [][Next]_vars

\* The fast-track loop on its own, over every short text of the alphabet: the
\* state at the head of the loop (line 239) for an utterance of one user turn.
InitLinker ==
    /\ all_docs \in Catalogs
    /\ service_names_list = ServiceNames(all_docs)
    /\ \E text \in SeqUpTo(TextAlphabet, MaxTextLen) :
          /\ messages = << [role |-> "user", content |-> text] >>
          /\ remaining_query = Strip(Strip(text))
    /\ pc = "fast_track"
    /\ detected_service_name = None
    /\ detections = << >>
    /\ fast_track_docs = << >>
    /\ intelligent_docs = << >>
    /\ query_analysis = NoAnalysis
    /\ search_plan = << >>
    /\ step_index = 0
    /\ planner_calls = << >>
    /\ crisis_support_docs = << >>
    /\ final_docs = << >>
    /\ lookups = << >>
    /\ synthesis = NoSynthesis
    /\ result = NoResult
    /\ chat_history = FormatChatHistory(messages)
    /\ context_list = << >>
    /\ context_string = << >>

NextLinker ==
    \/ FastTrackDetect
    \/ FastTrackReduce

SpecLinker == InitLinker /\ [][NextLinker]_vars

\* The dedup utility on its own: _merge_and_deduplicate(docs1, docs2) over
\* every pair of short document lists of a catalog (the lists in
\* fast_track_docs and intelligent_docs, the returned list in final_docs),
\* and then applied to its own result and an empty list.
InitMerge ==
    /\ all_docs \in Catalogs
    /\ service_names_list = ServiceNames(all_docs)
    /\ fast_track_docs \in SeqUpTo(1..Len(all_docs), MaxBatch)
    /\ intelligent_docs \in SeqUpTo(1..Len(all_docs), MaxBatch)
    /\ pc = "merge"
    /\ messages = << >>
    /\ remaining_query = << >>
    /\ detected_service_name = None
    /\ detections = << >>
    /\ query_analysis = NoAnalysis
    /\ search_plan = << >>
    /\ step_index = 0
    /\ planner_calls = << >>
    /\ crisis_support_docs = << >>
    /\ final_docs = << >>
    /\ lookups = << >>
    /\ synthesis = NoSynthesis
    /\ result = NoResult
    /\ chat_history = << >>
    /\ context_list = << >>
    /\ context_string = << >>

MergeBatches ==
    /\ pc = "merge"
    /\ final_docs' = MergeAndDeduplicate(all_docs, fast_track_docs, intelligent_docs)
    /\ pc' = "merged"
    /\ UNCHANGED << all_docs, service_names_list, messages, remaining_query,
                    detected_service_name, detections, fast_track_docs,
                    intelligent_docs, query_analysis, search_plan, step_index,
                    planner_calls, crisis_support_docs, lookups, synthesis,
                    result, chat_history, context_list, context_string >>

MergeAgain ==
    /\ pc = "merged"
    /\ final_docs' = MergeAndDeduplicate(all_docs, final_docs, << >>)
    /\ pc' = "remerged"
    /\ UNCHANGED << all_docs, service_names_list, messages, remaining_query,
                    detected_service_name, detections, fast_track_docs,
                    intelligent_docs, query_analysis, search_plan, step_index,
                    planner_calls, crisis_support_docs, lookups, synthesis,
                    result, chat_history, context_list, context_string >>

NextMerge ==
    \/ MergeBatches
    \/ MergeAgain

SpecMerge == InitMerge /\ [][NextMerge]_vars

\* The context assembly on its own: _generate_final_answer up to line 411
\* over every short list of the documents of a catalog whose metadata and
\* page contents cover the parts of a block.
MaxContextBatch == 3

JSON_TEXT == << "{" >>

RenderCatalog ==
    << RichDoc(NameAbc, << "o" >>, << "e" >>, << "d" >>, << "u" >>, JSON_TEXT,
               JDict(<< << "k" >>, << "n" >>, << "m" >>, << "l" >>, << "b" >> >>,
                     << JStr(<< "v", " " >>), JNum(<< "1" >>),
                        JDict(<< << "k" >> >>, << JStr(<< "w" >>) >>),
                        JList(<< JStr(<< "i" >>), JStr(<< >>), JNum(PY_ZERO),
                                 JNum(<< "1" >>) >>),
                        JBool(PY_TRUE) >>),
               << "m" >>, << "c" >>),
       RichDoc(NameAbc, None, None, None, << >>, << "p" >>, NotJson, None, None),
       RichDoc(NameAbc, None, << "e" >>, << "d" >>, None, << "q" >>, NotJson,
               None, None),
       RichDoc(NameAbcd, Null, None, None, Null, JSON_TEXT,
               JList(<< JStr(<< "i" >>), JDict(<< << "k" >> >>, << JStr(<< "v" >>) >>),
                        JNull >>),
               << "m" >>, << " " >>),
       RichDoc(NameAbcd, None, None, None, None, JSON_TEXT, JNum(<< "1" >>),
               None, << "c" >>),
       RichDoc(NameAbc, None, None, None, None, JSON_TEXT,
               JDict(<< << "n" >> >>, << JNum(<< "1" >>) >>), None, None),
       RichDoc(NameNav, << "o" >>, None, None, None, << "p" >>, NotJson, None, None) >>

InitRender ==
    /\ all_docs = RenderCatalog
    /\ service_names_list = ServiceNames(all_docs)
    /\ final_docs \in SeqUpTo(1..Len(all_docs), MaxContextBatch)
    /\ pc = "assemble"
    /\ messages = << >>
    /\ remaining_query = << >>
    /\ detected_service_name = None
    /\ detections = << >>
    /\ fast_track_docs = << >>
    /\ intelligent_docs = << >>
    /\ query_analysis = NoAnalysis
    /\ search_plan = << >>
    /\ step_index = 0
    /\ planner_calls = << >>
    /\ crisis_support_docs = << >>
    /\ lookups = << >>
    /\ synthesis = NoSynthesis
    /\ result = NoResult
    /\ chat_history = << >>
    /\ context_list = << >>
    /\ context_string = << >>

\* _generate_final_answer(user_message, chat_history, documents) up to the
\* call of the chain: the groups and the context string.
AssembleContext ==
    /\ pc = "assemble"
    /\ context_list' = ContextList(all_docs, final_docs)
    /\ context_string' = ContextString(ContextList(all_docs, final_docs))
    /\ pc' = "assembled"
    /\ UNCHANGED << all_docs, service_names_list, messages, remaining_query,
                    detected_service_name, detections, fast_track_docs,
                    intelligent_docs, query_analysis, search_plan, step_index,
                    planner_calls, crisis_support_docs, final_docs, lookups,
                    synthesis, result, chat_history >>

NextRender == AssembleContext

SpecRender == InitRender /\ [][NextRender]_vars

-----------------------------------------------------------------------------
(* Properties.                                                             *)

\* The turn has passed line 328: the three batches are aggregated.
ReachedAggregation ==
    \/ pc = "respond"
    \/ (pc = "done" /\ (synthesis.kind # "none" \/ result = NotFoundApology))

LookupDone(filter_dict) == \E k \in 1..Len(lookups) : lookups[k] = filter_dict

\* C1: in every turn that reaches aggregation the final batch is the
\* fast-track batch, then the intelligent-search batch, then the crisis batch,
\* element for element: its length is the sum of the three lengths and nothing
\* is deduplicated.
C1_FinalBatchIsConcatenation ==
    ReachedAggregation =>
        LET nf == Len(fast_track_docs)
            ni == Len(intelligent_docs)
        IN  /\ Len(final_docs) = nf + ni + Len(crisis_support_docs)
            /\ \A k \in 1..Len(final_docs) :
                  final_docs[k] =
                     IF k <= nf THEN fast_track_docs[k]
                     ELSE IF k <= nf + ni THEN intelligent_docs[k - nf]
                     ELSE crisis_support_docs[k - nf - ni]

\* C1 (witness): an aggregated batch in which a Record found by the fast track
\* is found again by the crisis lookup, and so stands twice.
C1_Witness_RecordTwice ==
    /\ ReachedAggregation
    /\ \E j \in 1..Len(fast_track_docs) :
         \E k \in 1..Len(crisis_support_docs) :
            /\ fast_track_docs[j] = crisis_support_docs[k]
            /\ final_docs[j] = final_docs[Len(final_docs) - Len(crisis_support_docs) + k]

\* C2: every request with a user turn, whatever its text and its plan, ends
\* with the crisis lookup performed and the crisis Records as the last segment
\* of the final batch.
C2_CrisisAlwaysAppended ==
    (pc = "done" /\ messages # << >>) =>
        LET crisis == MetadataSearch(all_docs, CrisisFilter)
        IN  /\ LookupDone(CrisisFilter)
            /\ Len(final_docs) >= Len(crisis)
            /\ SubSeq(final_docs, Len(final_docs) - Len(crisis) + 1,
                      Len(final_docs)) = crisis

\* C3: chat() never lets an exception through: every turn, the one of a
\* session without turns included, ends in an answer or an apology with the
\* dialogue mode NORMAL.
C3_NoExceptionPropagates ==
    pc = "done" => (result.kind # "exception" /\ result.mode = NORMAL)

\* C4: the fallback runs exactly when the aggregated batch is empty, with one
\* lookup of the sentinel pair; Records found go to the overview synthesis, none
\* found gives the not-found apology; so over an empty catalog a request with a
\* user turn always ends in the not-found apology.
C4_FallbackResolver ==
    /\ ReachedAggregation /\ pc = "done" =>
         /\ LookupDone(FallbackFilter) <=> final_docs = << >>
         /\ Cardinality({ k \in 1..Len(lookups) : lookups[k] = FallbackFilter }) <= 1
         /\ LookupDone(FallbackFilter) =>
              IF MetadataSearch(all_docs, FallbackFilter) # << >>
              THEN synthesis = [kind |-> "overview",
                                docs |-> MetadataSearch(all_docs, FallbackFilter)]
              ELSE result = NotFoundApology
    /\ (pc = "done" /\ messages # << >> /\ all_docs = << >>) =>
         result = NotFoundApology

\* C5: a turn in which the planner was called never ends in the generic
\* apology on the planner's account: the crisis lookup runs, and the generic
\* apology can only come from the synthesis.
C5_PlannerFailureNotSurfaced ==
    (pc = "done" /\ planner_calls # << >>) =>
        /\ LookupDone(CrisisFilter)
        /\ (result = GenericApology => synthesis.kind # "none")

\* C6: the fast-track loop moves only along HAS_TEXT -> DETECTED (with one
\* lookup, its Records appended) or HAS_TEXT -> STOP, and DETECTED -> HAS_TEXT
\* (text changed) or DETECTED -> STOP (text unchanged and restored), the
\* accumulated Records kept in both.
C6_FastTrackStateMachine ==
    [][ /\ (pc = "fast_track" =>
              \/ /\ pc' = "reduce"
                 /\ detected_service_name' # None
                 /\ Len(lookups') = Len(lookups) + 1
                 /\ fast_track_docs' = fast_track_docs
                       \o MetadataSearch(all_docs, [name |-> detected_service_name'])
              \/ /\ pc' = "plan"
                 /\ fast_track_docs' = fast_track_docs
                 /\ lookups' = lookups)
        /\ (pc = "reduce" =>
              /\ fast_track_docs' = fast_track_docs
              /\ lookups' = lookups
              /\ \/ (pc' = "fast_track" /\ remaining_query' # remaining_query)
                 \/ (pc' = "plan" /\ remaining_query' = remaining_query)) ]_vars

\* C7 (as claimed): every Record of the fast-track batch has an entryName
\* equal to a detected name.
C7_ExactNameOnly ==
    \A k \in 1..Len(fast_track_docs) :
        \E d \in 1..Len(detections) :
            all_docs[fast_track_docs[k]].name = detections[d]

\* The Records, in catalog order, whose entryName starts with the name.
RecordsWithNamePrefix(name) ==
    SelectSeqBy([i \in 1..Len(all_docs) |-> i],
                { i \in 1..Len(all_docs) :
                    /\ all_docs[i].name # None
                    /\ Len(name) <= Len(all_docs[i].name)
                    /\ \A c \in 1..Len(name) : all_docs[i].name[c] = name[c] })

\* C7 (amended): the fast-track batch is, detection after detection, the
\* Records whose entryName starts with the detected name, an entryName that
\* is longer than the detected name included.
C7_PrefixLookup ==
    fast_track_docs =
        ConcatAll([d \in 1..Len(detections) |-> RecordsWithNamePrefix(detections[d])])

\* C7 (witness): the batch of a detection holds a Record whose entryName is
\* longer than the detected name.
C7_Witness_LongerName ==
    /\ Len(detections) = 1
    /\ \E k \in 1..Len(fast_track_docs) :
          Len(all_docs[fast_track_docs[k]].name) > Len(detections[1])

\* The result of the last detection is in detected_service_name and its
\* input in remaining_query.
DetectionVisible == pc = "reduce" \/ (pc = "plan" /\ remaining_query # << >>)

\* The known names that occur in the text, both without the characters of
\* `white`, and are longer than two characters.
QualifyingNames(text, white) ==
    LET squeeze(s) == SelectSeq(s, LAMBDA c : c \notin white)
    IN  { i \in 1..Len(service_names_list) :
            /\ Len(squeeze(service_names_list[i])) > 2
            /\ \E p \in 1..Len(squeeze(text)) :
                  /\ p + Len(squeeze(service_names_list[i])) - 1 <= Len(squeeze(text))
                  /\ \A c \in 1..Len(squeeze(service_names_list[i])) :
                        squeeze(text)[p + c - 1] = squeeze(service_names_list[i])[c] }

FirstOf(S) == CHOOSE i \in S : \A j \in S : i <= j

\* C8 (as claimed): when the whitespace-stripped input contains a known name
\* of more than two characters, the first such name of the list is returned.
C8_FirstNameWhitespaceStripped ==
    (DetectionVisible /\ QualifyingNames(remaining_query, {" ", "\t"}) # {}) =>
        detected_service_name =
            service_names_list[FirstOf(QualifyingNames(remaining_query, {" ", "\t"}))]

\* C8 (amended): when the input with its space characters removed contains a
\* known name (spaces removed) of more than two characters, the first such
\* name of the list is returned, whatever later names qualify; the result is
\* always one name of the list or none.
C8_FirstNameSpaceStripped ==
    DetectionVisible =>
        /\ QualifyingNames(remaining_query, {" "}) # {} =>
              detected_service_name =
                  service_names_list[FirstOf(QualifyingNames(remaining_query, {" "}))]
        /\ \/ detected_service_name = None
           \/ \E i \in 1..Len(service_names_list) :
                 detected_service_name = service_names_list[i]

\* C8 (witness): two names qualify, the later one longer, and the first is
\* returned.
C8_Witness_TwoQualify ==
    /\ DetectionVisible
    /\ \E i, j \in QualifyingNames(remaining_query, {" "}) :
          /\ i < j
          /\ Len(service_names_list[i]) < Len(service_names_list[j])
          /\ detected_service_name = service_names_list[i]

\* The scores of the fuzzy pass, by position in the list of names.
ScoreOf(i) ==
    PartialRatio(ReplaceSpace(remaining_query), ReplaceSpace(service_names_list[i]))

TopScore == SetMax({ ScoreOf(i) : i \in 1..Len(service_names_list) })

\* C9: when no name qualifies in the exact pass, the name with the maximum
\* partial-similarity score is returned if and only if that maximum is at
\* least 80; otherwise none is.
C9_FuzzyThreshold ==
    (DetectionVisible /\ QualifyingNames(remaining_query, {" "}) = {}) =>
        IF service_names_list # << >> /\ TopScore >= 80
        THEN \E i \in 1..Len(service_names_list) :
                /\ detected_service_name = service_names_list[i]
                /\ ScoreOf(i) = TopScore
        ELSE detected_service_name = None

\* C9 (witness): no exact candidate, a maximum of exactly 80, and its name
\* returned.
C9_Witness_ExactlyEighty ==
    /\ DetectionVisible
    /\ QualifyingNames(remaining_query, {" "}) = {}
    /\ service_names_list # << >>
    /\ TopScore = 80
    /\ detected_service_name # None

\* C10: the intelligent-search batch is the concatenation, in list order, of
\* what each executed step of the plan lets through, whatever the priority
\* fields say and without deduplication against earlier steps.
C10_StepsInListOrder ==
    pc \in {"steps", "crisis", "respond"} =>
        intelligent_docs =
            ConcatAll([k \in 1..(step_index - 1) |-> StepDocs(all_docs, search_plan[k])])

\* C10 (witness): a plan of two steps whose priority fields are out of list
\* order has run, both steps contributed and a Record stands twice.
C10_Witness_PriorityOutOfOrder ==
    /\ pc = "crisis"
    /\ Len(search_plan) = 2
    /\ search_plan[1].priority > search_plan[2].priority
    /\ StepDocs(all_docs, search_plan[1]) # << >>
    /\ StepDocs(all_docs, search_plan[2]) # << >>
    /\ \E j, k \in 1..Len(intelligent_docs) :
          j # k /\ intelligent_docs[j] = intelligent_docs[k]

\* A step that is a mapping and lists no middle category: its 'filters' key is
\* absent, or the list under it is empty.
EmptyMinorFilters(step) ==
    /\ step.kind = "dict"
    /\ \/ step.filters.kind = "missing"
       \/ (step.filters.kind = "dict" /\ step.filters.minor = << >>)

\* C11: a step without a middle-category filter adds no Record to the
\* intelligent-search batch and makes no catalog lookup, whatever its
\* baseCondition; the loop moves on to the next step.
C11_EmptyFilterSkipped ==
    [][ (pc = "steps" /\ EmptyMinorFilters(search_plan[step_index])) =>
            /\ intelligent_docs' = intelligent_docs
            /\ lookups' = lookups
            /\ step_index' = step_index + 1
            /\ pc' \in {"steps", "crisis"} ]_vars

\* C11 (witness): a one-step plan whose step has a baseCondition that Records
\* of the catalog meet, and no middle category, has run and left the batch
\* empty.
C11_Witness_SkippedWithBaseCondition ==
    /\ pc = "crisis"
    /\ Len(search_plan) = 1
    /\ EmptyMinorFilters(search_plan[1])
    /\ search_plan[1].base_condition # << >>
    /\ \E i \in 1..Len(all_docs) :
          PassesBaseCondition(all_docs[i], search_plan[1].base_condition)
    /\ intelligent_docs = << >>

\* A text without its space characters, and the occurrence of one text in
\* another.
SpaceStripped(s) == SelectSeq(s, LAMBDA c : c # " ")

HasSubstring(t, u) ==
    \E p \in 0..(Len(t) - Len(u)) : \A c \in 1..Len(u) : t[p + c] = u[c]

\* The audience test as claimed: no baseCondition, or the targetGroup (none:
\* the empty text) contains a token, both without spaces.
AudiencePass(i, base_condition) ==
    \/ base_condition = << >>
    \/ \E k \in 1..Len(base_condition) :
          HasSubstring(SpaceStripped(IF all_docs[i].target = None THEN << >>
                                     ELSE all_docs[i].target),
                       SpaceStripped(base_condition[k]))

\* The Stage-A Records of the step the loop is about to work on.
StageA(step) ==
    IF step.filters.kind = "dict"
    THEN CategoryDocs(all_docs, step.filters.minor) ELSE << >>

\* C12: a step adds to the intelligent-search batch exactly the Stage-A
\* Records that pass the audience test: those whose targetGroup, spaces
\* removed, contains a baseCondition token, spaces removed, or all of them
\* when baseCondition is empty.
C12_AudienceFilter ==
    [][ (pc = "steps" /\ pc' # "done") =>
            intelligent_docs' =
                intelligent_docs
                \o SelectSeq(StageA(search_plan[step_index]),
                             LAMBDA i : AudiencePass(i, search_plan[step_index].base_condition)) ]_vars

\* C12 (witness): a step with a baseCondition has run over a Stage A holding
\* a Record without targetGroup and a Record whose targetGroup contains the
\* token only once its spaces are removed; the first is out, the second in.
C12_Witness_SpacedTargetPasses ==
    /\ pc = "crisis"
    /\ Len(search_plan) = 1
    /\ search_plan[1].base_condition # << >>
    /\ \E j, k \in 1..Len(StageA(search_plan[1])) :
          LET a == StageA(search_plan[1])[j]
              b == StageA(search_plan[1])[k]
          IN  /\ all_docs[a].target = None
              /\ \A n \in 1..Len(intelligent_docs) : intelligent_docs[n] # a
              /\ all_docs[b].target # None
              /\ \E c \in 1..Len(all_docs[b].target) : all_docs[b].target[c] = " "
              /\ ~ \E t \in 1..Len(search_plan[1].base_condition) :
                     HasSubstring(all_docs[b].target, search_plan[1].base_condition[t])
              /\ \E n \in 1..Len(intelligent_docs) : intelligent_docs[n] = b

\* The context has been assembled: the final synthesis was invoked.
ContextAssembled == pc = "done" /\ synthesis.kind = "final"

HasMarker(name) ==
    \E k \in 1..Len(NAV_MARKERS) : HasSubstring(name, NAV_MARKERS[k])

HasGroup(name) ==
    \E g \in 1..Len(context_list) : context_list[g].service_name = name

\* C13: of the Records of the final batch, one whose entryName contains a
\* navigational marker has no group in the assembled context, and one whose
\* entryName is non-empty and contains no marker has one.
C13_NavigationalDropped ==
    ContextAssembled =>
        \A k \in 1..Len(final_docs) :
            LET name == all_docs[final_docs[k]].name
            IN  IF name = None \/ name = << >> THEN TRUE
                ELSE IF HasMarker(name) THEN ~ HasGroup(name)
                ELSE HasGroup(name)

\* C13 (witness): the final batch holds a Record with a navigational entry
\* name and a Record with a plain one; the context has a group for the
\* second only.
C13_Witness_MarkerInBatch ==
    /\ ContextAssembled
    /\ \E j, k \in 1..Len(final_docs) :
          /\ all_docs[final_docs[j]].name # None
          /\ HasMarker(all_docs[final_docs[j]].name)
          /\ ~ HasGroup(all_docs[final_docs[j]].name)
          /\ all_docs[final_docs[k]].name # None
          /\ ~ HasMarker(all_docs[final_docs[k]].name)
          /\ HasGroup(all_docs[final_docs[k]].name)

\* The blocks the Records of the final batch with this entry name render to.
BlocksOfName(name) ==
    { FullContentStr(all_docs[final_docs[k]]) :
        k \in { j \in 1..Len(final_docs) : all_docs[final_docs[j]].name = name } }
    \ { << >> }

\* C14: in the assembled context every group holds each block its Records
\* render to exactly once, and holds it whether or not another group holds an
\* identical block.
C14_BlocksDedupPerGroup ==
    ContextAssembled =>
        \A g \in 1..Len(context_list) :
            /\ \A a, b \in 1..Len(context_list[g].blocks) :
                   context_list[g].blocks[a] = context_list[g].blocks[b] => a = b
            /\ { context_list[g].blocks[a] : a \in 1..Len(context_list[g].blocks) }
                  = BlocksOfName(context_list[g].service_name)

\* C14 (witness): two Records of one group and a Record of another group all
\* render to the same block, which stands once in each of the two groups.
C14_Witness_SameBlockTwoGroups ==
    /\ ContextAssembled
    /\ \E i, j, k \in 1..Len(final_docs) :
          LET a == all_docs[final_docs[i]]
              b == all_docs[final_docs[j]]
              c == all_docs[final_docs[k]]
          IN  /\ final_docs[i] # final_docs[j]
              /\ a.name = b.name /\ a.name # c.name
              /\ FullContentStr(a) = FullContentStr(b)
              /\ FullContentStr(a) = FullContentStr(c)
              /\ \E g, h \in 1..Len(context_list) :
                    /\ context_list[g].service_name = a.name
                    /\ context_list[h].service_name = c.name
                    /\ context_list[g].blocks = << FullContentStr(a) >>
                    /\ context_list[h].blocks = << FullContentStr(a) >>

\* The (body, entryName) pair of a Record.
PairOf(i) == << all_docs[i].body, all_docs[i].name >>

\* The positions of the two lists, laid end to end, at which a pair is seen
\* for the first time.
FirstSeen(input) ==
    { p \in 1..Len(input) :
        \A q \in 1..(p - 1) : PairOf(input[q]) # PairOf(input[p]) }

\* C15: the dedup utility returns, of the first list followed by the second,
\* the Records at which a (body, entryName) pair is seen first, in that order:
\* no pair twice, every pair of the inputs present; and it returns its own
\* result unchanged when given it with an empty list.
C15_MergeAndDeduplicate ==
    pc \in {"merged", "remerged"} =>
        LET input == fast_track_docs \o intelligent_docs
        IN  /\ Len(final_docs) = Cardinality(FirstSeen(input))
            /\ \A k \in 1..Len(final_docs) :
                  \E p \in FirstSeen(input) :
                     /\ final_docs[k] = input[p]
                     /\ Cardinality({ q \in FirstSeen(input) : q < p }) = k - 1
            /\ \A a, b \in 1..Len(final_docs) :
                  PairOf(final_docs[a]) = PairOf(final_docs[b]) => a = b
            /\ \A p \in 1..Len(input) :
                  \E k \in 1..Len(final_docs) : PairOf(final_docs[k]) = PairOf(input[p])

\* C15 (witness): the lists hold two different Records of one pair and a
\* Record of the same body under another entry name; the utility, applied
\* twice, has kept the first of the pair and the Record of the other name.
C15_Witness_PairCollapsed ==
    /\ pc = "remerged"
    /\ \E i \in 1..Len(fast_track_docs) :
          \E j, k \in 1..Len(intelligent_docs) :
             /\ fast_track_docs[i] # intelligent_docs[j]
             /\ PairOf(fast_track_docs[i]) = PairOf(intelligent_docs[j])
             /\ all_docs[intelligent_docs[k]].body = all_docs[fast_track_docs[i]].body
             /\ all_docs[intelligent_docs[k]].name # all_docs[fast_track_docs[i]].name
             /\ \A n \in 1..Len(final_docs) : final_docs[n] # intelligent_docs[j]
             /\ \E n \in 1..Len(final_docs) : final_docs[n] = intelligent_docs[k]

\* The turns the claim puts into the history of a session of n turns: the
\* five before the trailing one, or all before it when there are fewer.
TurnsBeforeTrailing(n) == { k \in 1..(n - 1) : k >= n - 5 }

\* C16: the formatted history is, line by line and in order, the (at most
\* five) turns that stand immediately before the trailing turn, and the fixed
\* no-history text for a session of one turn.
C16_HistoryWindow ==
    (pc # "idle" /\ messages # << >>) =>
        LET n == Len(messages)
            first == n - Cardinality(TurnsBeforeTrailing(n))
        IN  IF n = 1 THEN chat_history = NO_HISTORY
            ELSE chat_history =
                    JoinLines([k \in 1..Cardinality(TurnsBeforeTrailing(n)) |->
                                  HistoryLine(messages[first + k - 1])])

\* C16 (witness): a session of seven turns, whose history holds the second
\* to the sixth turn and neither the first nor the trailing one.
C16_Witness_OlderTurnLeftOut ==
    /\ pc = "fast_track"
    /\ Len(messages) = 7
    /\ ~ Contains(chat_history, messages[1].content)
    /\ ~ Contains(chat_history, messages[7].content)
    /\ \A k \in 2..6 : Contains(chat_history, messages[k].content)

\* The name read literally: each of its characters, spaces left out, followed
\* by any run of whitespace.
LiteralElements(name) ==
    [k \in 1..(2 * Len(ReplaceSpace(name))) |->
        IF k % 2 = 1 THEN [ws |-> FALSE, ch |-> ReplaceSpace(name)[(k + 1) \div 2]]
        ELSE [ws |-> TRUE, ch |-> " "]]

\* The text contains the name verbatim: its characters in order, in any
\* letter case, with whitespace allowed between them.
VerbatimIn(text, name) ==
    \E p \in 1..Len(text) : MatchFrom(LiteralElements(name), 1, text, p) # 0

\* C17: the reduction of a text that contains the detected name verbatim
\* yields a strictly shorter text and the loop goes on; the reduction of a
\* text without the name leaves it unchanged and the loop stops; for every
\* known name, names with punctuation included.
C17_ReducerRemovesName ==
    [][ pc = "reduce" =>
            IF VerbatimIn(remaining_query, detected_service_name)
            THEN /\ pc' = "fast_track"
                 /\ Len(remaining_query') < Len(remaining_query)
            ELSE /\ pc' = "plan"
                 /\ remaining_query' = remaining_query ]_vars

\* C18: what the planner returns on a failure is the degenerate plan: the
\* intent analysis-failed with exactly one step, of priority 1, without
\* baseCondition and without middle-category filter.
C18_DegeneratePlan ==
    query_analysis.intent = ANALYSIS_FAILED =>
        /\ query_analysis.search_plan.kind = "list"
        /\ Len(query_analysis.search_plan.items) = 1
        /\ query_analysis.search_plan.items[1].priority = 1
        /\ query_analysis.search_plan.items[1].base_condition = << >>
        /\ EmptyMinorFilters(query_analysis.search_plan.items[1])

\* The fast-track loop has stopped and the turn has gone past the planner.
PastPlanner ==
    \/ pc \in {"steps", "crisis", "respond"}
    \/ (pc = "done" /\ (ReachedAggregation \/ planner_calls # << >>))

\* C19: the planner is not called while the fast-track loop runs; once the
\* loop has stopped it has been called exactly once, with the remaining text,
\* if that text is non-empty, and not at all if it is empty, in which case
\* the intelligent-search batch is empty.
C19_PlannerCalledOnRemainingText ==
    /\ pc \in {"idle", "fast_track", "reduce", "plan"} => planner_calls = << >>
    /\ PastPlanner =>
          IF remaining_query = << >>
          THEN planner_calls = << >> /\ intelligent_docs = << >>
          ELSE planner_calls = << remaining_query >>

\* C19 (witness): the fast-track loop has taken a name out of the utterance
\* and the planner was called once, with what was left.
C19_Witness_ReducedTextPlanned ==
    /\ pc = "crisis"
    /\ detections # << >>
    /\ remaining_query # << >>
    /\ remaining_query # Strip(messages[Len(messages)].content)
    /\ planner_calls = << remaining_query >>

\* How often a Record stands in a batch.
Occurrences(batch, i) == Cardinality({ k \in 1..Len(batch) : batch[k] = i })

\* C20: a step without baseCondition adds to the intelligent-search batch
\* the union of the Records whose minorCategory starts with a listed filter
\* value: each such Record once, however many listed values it matches, and
\* no other Record; the loop then goes on to the next step.
C20_StageAUnion ==
    [][ (pc = "steps" /\ pc' # "done"
           /\ search_plan[step_index].base_condition = << >>) =>
            LET step == search_plan[step_index]
                listed == IF step.filters.kind = "dict" THEN step.filters.minor
                          ELSE << >>
                added == SubSeq(intelligent_docs', Len(intelligent_docs) + 1,
                                Len(intelligent_docs'))
            IN  /\ \A i \in 1..Len(all_docs) :
                      Occurrences(added, i) =
                          IF \E k \in 1..Len(listed) :
                                 /\ all_docs[i].minor # None
                                 /\ HasSubstring(all_docs[i].minor, listed[k])
                                 /\ SubSeq(all_docs[i].minor, 1, Len(listed[k])) = listed[k]
                          THEN 1 ELSE 0
                /\ step_index' = step_index + 1 ]_vars

RECURSIVE SplitLines(_)
\* text.split("\n")
SplitLines(text) ==
    IF \A i \in 1..Len(text) : text[i] # "\n" THEN << text >>
    ELSE LET i == CHOOSE j \in 1..Len(text) :
                      text[j] = "\n" /\ \A h \in 1..(j - 1) : text[h] # "\n"
         IN  << SubSeq(text, 1, i - 1) >> \o SplitLines(SubSeq(text, i + 1, Len(text)))

\* The support-detail lines of a block, in their order.
DetailLines(block) ==
    SelectSeq(SplitLines(block), LAMBDA line : StartsWith(line, LABEL_DETAIL))

\* The context of the batch is assembled.
Assembled == pc = "assembled"

\* The documents of the batch that get a block: those not dropped.
Rendered == { final_docs[k] : k \in { j \in 1..Len(final_docs) :
                                        ~Dropped(all_docs[final_docs[j]]) } }

\* The document carries both support-detail keys, the earlier one with a
\* value.
BothDetailKeys(doc) == HasValue(doc.detail) /\ doc.detail_alt # None

\* The blocks of the group of an entry name in the assembled context.
GroupBlocks(name) ==
    UNION { { context_list[g].blocks[b] : b \in 1..Len(context_list[g].blocks) } :
              g \in { h \in 1..Len(context_list) :
                        context_list[h].service_name = name } }

\* C21 (as the code has it): a Record that carries both support-detail keys
\* gets a block with two support-detail lines under the one label, first the
\* line of the earlier-checked key, then the line of the later-checked key;
\* neither value replaces the other.
C21_BothDetailLines ==
    Assembled =>
        \A i \in Rendered :
            BothDetailKeys(all_docs[i]) =>
                \E block \in GroupBlocks(all_docs[i].name) :
                    DetailLines(block)
                        = << LABEL_DETAIL \o all_docs[i].detail,
                             LABEL_DETAIL \o Shown(all_docs[i].detail_alt) >>

\* C21 (as stated): a Record that carries both support-detail keys gets a
\* block with exactly one support-detail line, the one of the later-checked
\* key; the value of the earlier-checked key does not appear.
C21_LastWriteWins ==
    Assembled =>
        \A i \in Rendered :
            BothDetailKeys(all_docs[i]) =>
                \E block \in GroupBlocks(all_docs[i].name) :
                    DetailLines(block)
                        = << LABEL_DETAIL \o Shown(all_docs[i].detail_alt) >>

\* A batch with a Record of both support-detail keys has been assembled.
C21_Witness_BothKeysRendered ==
    /\ Assembled
    /\ \E i \in Rendered :
          /\ BothDetailKeys(all_docs[i])
          /\ all_docs[i].detail # all_docs[i].detail_alt

\* The lines the block of a document is to have: one per field that is there
\* with a value, in the order overview, target group, support detail,
\* rendered body, application method, contact.
ListedParts(doc) ==
    (IF HasValue(doc.overview) THEN << LABEL_OVERVIEW \o doc.overview >> ELSE << >>)
    \o (IF HasValue(doc.target) THEN << LABEL_TARGET \o doc.target >> ELSE << >>)
    \o (IF HasValue(doc.detail) THEN << LABEL_DETAIL \o doc.detail >> ELSE << >>)
    \o (IF HasValue(doc.detail_alt) THEN << LABEL_DETAIL \o doc.detail_alt >> ELSE << >>)
    \o BodyParts(doc)
    \o (IF HasValue(doc.method) THEN << LABEL_METHOD \o doc.method >> ELSE << >>)
    \o ContactParts(doc)

\* C22: the block of a Record lists only the fields that are present with a
\* non-empty value, each as a label/value line, in the fixed order overview,
\* target group, support detail, rendered body, application method, contact;
\* a field that is absent, empty or null produces no line.
C22_OnlyFieldsWithValue ==
    Assembled =>
        \A g \in 1..Len(context_list) :
            { context_list[g].blocks[b] : b \in 1..Len(context_list[g].blocks) }
                = { JoinLines(ListedParts(all_docs[i])) :
                      i \in { j \in Rendered :
                                all_docs[j].name = context_list[g].service_name } }
                  \ { << >> }

RECURSIVE RenderAsStated(_, _)
RECURSIVE MappingAsStated(_, _, _)
RECURSIVE SequenceAsStated(_, _, _)

\* The bullets of a mapping from its k-th key on when every value that is a
\* non-empty scalar gives a bullet, whatever its type.
MappingAsStated(data, indent_level, k) ==
    IF k > Len(data.keys) THEN << >>
    ELSE LET key == data.keys[k]
             value == data.items[k]
             indent == Indent(indent_level)
             nested == RenderAsStated(value, indent_level + 1)
         IN  (IF value.type \in {"str", "num", "bool"} /\ Truthy(value)
                   /\ Strip(value.val) # << >>
              THEN << indent \o << "-", " " >> \o key \o << ":", " " >>
                        \o Strip(value.val) >>
              ELSE IF value.type \in {"dict", "list"} /\ nested # << >>
              THEN << indent \o << "-", " " >> \o key \o << ":" >>, nested >>
              ELSE << >>)
             \o MappingAsStated(data, indent_level, k + 1)

SequenceAsStated(data, indent_level, k) ==
    IF k > Len(data.items) THEN << >>
    ELSE LET item == data.items[k]
             entry == RenderAsStated(item, indent_level)
         IN  (IF Truthy(item) /\ entry # << >> THEN << entry >> ELSE << >>)
             \o SequenceAsStated(data, indent_level, k + 1)

\* The rendering of a parsed body as stated: a bullet per key of a mapping
\* (nested values one level deeper), an entry per non-empty item of a
\* sequence, a bullet of the stringified value for a scalar.
RenderAsStated(data, indent_level) ==
    IF ~Truthy(data) THEN << >>
    ELSE IF data.type = "dict" THEN JoinLines(MappingAsStated(data, indent_level, 1))
    ELSE IF data.type = "list" THEN JoinLines(SequenceAsStated(data, indent_level, 1))
    ELSE IF Strip(data.val) # << >>
         THEN Indent(indent_level) \o << "-", " " >> \o Strip(data.val)
         ELSE << >>

\* C23: a Record whose body parses as structured data is rendered
\* recursively: one bullet per key of a mapping with nested values indented
\* one level deeper, one entry per non-empty item of a sequence, one bullet
\* with the stringified value for a scalar; a mapping key whose value is a
\* non-empty scalar of any type (string, number, boolean) produces a bullet.
C23_RecursiveRender ==
    Assembled =>
        \A i \in Rendered :
            (all_docs[i].parsed.type # "raise"
                /\ RenderAsStated(all_docs[i].parsed, 0) # << >>) =>
                \E block \in GroupBlocks(all_docs[i].name) :
                    Contains(block, LABEL_INFO \o << "\n" >>
                                      \o RenderAsStated(all_docs[i].parsed, 0))

RECURSIVE SplitBy(_, _)
\* text.split(sep)
SplitBy(text, sep) ==
    IF ~Contains(text, sep) THEN << text >>
    ELSE LET i == CHOOSE j \in 1..(Len(text) - Len(sep) + 1) :
                      /\ SubSeq(text, j, j + Len(sep) - 1) = sep
                      /\ \A h \in 1..(j - 1) : SubSeq(text, h, h + Len(sep) - 1) # sep
         IN  << SubSeq(text, 1, i - 1) >>
                 \o SplitBy(SubSeq(text, i + Len(sep), Len(text)), sep)

\* The orders in which the documents of the batch can come.
BatchOrders ==
    { p \in [1..Len(final_docs) -> 1..Len(final_docs)] :
        \A a, b \in 1..Len(final_docs) : p[a] = p[b] => a = b }

\* The blocks of the group of an entry name in a context, in their order.
BlocksIn(groups, name) ==
    IF \E g \in 1..Len(groups) : groups[g].service_name = name
    THEN groups[CHOOSE g \in 1..Len(groups) : groups[g].service_name = name].blocks
    ELSE << >>

\* C24: within each group the blocks stand in lexicographic order and are
\* joined by blank lines under the header of the entry name; the groups are
\* joined by a separator line; a batch that holds the same Records in another
\* order gives every group the same blocks in the same order.
C24_BlocksSortedAndJoined ==
    Assembled =>
        /\ \A g \in 1..Len(context_list) :
              \A b \in 1..(Len(context_list[g].blocks) - 1) :
                  StrLess(context_list[g].blocks[b], context_list[g].blocks[b + 1])
        /\ IF context_list = << >> THEN context_string = << >>
           ELSE LET pieces == SplitBy(context_string, GROUP_SEPARATOR)
                IN  /\ Len(pieces) = Len(context_list)
                    /\ \A g \in 1..Len(context_list) :
                          pieces[g] = GROUP_HEADER \o context_list[g].service_name
                                        \o << "\n" >>
                                        \o JoinWith(context_list[g].blocks,
                                                    << "\n", "\n" >>)
                                        \o << "\n" >>
        /\ \A p \in BatchOrders :
              LET other == ContextList(all_docs,
                                       [k \in 1..Len(final_docs) |-> final_docs[p[k]]])
              IN  /\ Len(other) = Len(context_list)
                  /\ \A g \in 1..Len(context_list) :
                        BlocksIn(other, context_list[g].service_name)
                            = context_list[g].blocks

\* Two groups, one of them with two blocks that came in the other order than
\* they are listed in.
C24_Witness_ReorderedBlocks ==
    /\ Assembled
    /\ Len(context_list) >= 2
    /\ Len(context_list[1].blocks) >= 2
    /\ ~Dropped(all_docs[final_docs[1]])
    /\ FullContentStr(all_docs[final_docs[1]]) = context_list[1].blocks[2]

\* C25: no operation of a turn changes the catalog, the fields of a Record
\* or the known-name list of the schema context: after any sequence of
\* turns, successful or failed, they are what the initialization left.
C25_CatalogFrame ==
    /\ [](all_docs \in Catalogs /\ service_names_list = ServiceNames(all_docs))
    /\ [][all_docs' = all_docs /\ service_names_list' = service_names_list]_vars

\* A turn that made lookups in a catalog and failed is over.
C25_Witness_FailedTurnAfterLookups ==
    /\ pc = "done"
    /\ result = GenericApology
    /\ Len(lookups) >= 2
    /\ all_docs # << >>

\* The text the fast-track loop starts with: the user's message, stripped.
InitialText ==
    IF messages = << >> THEN << >> ELSE Strip(messages[Len(messages)].content)

\* The turn is inside the fast-track loop.
InFastTrackLoop == pc \in {"fast_track", "reduce"}

ExactDetected ==
    /\ pc = "reduce"
    /\ \E i \in 1..Len(service_names_list) :
          ExactQualifies(ReplaceSpace(remaining_query), service_names_list[i])

\* C27: when the name was detected by the exact pass, the reduction changes
\* the remaining text and raises no error; the loop stops on an unchanged
\* text only after a detection of the fuzzy pass.
C27_ExactDetectionReduces ==
    [][ExactDetected =>
            /\ pc' = "fast_track"
            /\ remaining_query' # remaining_query]_vars

\* The aggregated batch is not empty and holds only Records that get no
\* group.
AllDropped ==
    /\ final_docs # << >>
    /\ \A k \in 1..Len(final_docs) : Dropped(all_docs[final_docs[k]])

\* C28: when the aggregated batch is not empty but every Record of it is
\* dropped by the context assembly, the fallback is not triggered: the final
\* synthesis is invoked on the batch with an empty context string, and the
\* turn returns its output (the generic apology only if the synthesis itself
\* raises).
C28_EmptyContextStillFinal ==
    (pc = "done" /\ AllDropped) =>
        /\ synthesis = [kind |-> "final", docs |-> final_docs]
        /\ context_list = << >>
        /\ context_string = << >>
        /\ \A k \in 1..Len(lookups) : lookups[k] # FallbackFilter
        /\ result \in {Answer("final"), GenericApology}

\* A turn whose batch held only dropped Records returned the final answer.
C28_Witness_AllDroppedAnswered ==
    /\ pc = "done"
    /\ AllDropped
    /\ result = Answer("final")
    /\ \E k \in 1..Len(final_docs) : all_docs[final_docs[k]].name = NameNav

\* The detection step runs on a text that is not empty.
Detecting == pc = "fast_track" /\ remaining_query # << >>

\* Some known name qualifies for the exact pass in the remaining text: it is
\* contained in it (spaces removed) and longer than two characters.
ExactCandidate ==
    \E i \in 1..Len(service_names_list) :
        /\ Len(ReplaceSpace(service_names_list[i])) > 2
        /\ Contains(ReplaceSpace(remaining_query),
                    ReplaceSpace(service_names_list[i]))

\* The score of the i-th known name against the remaining text.
ScoreAt(i) == FuzzyScore(ReplaceSpace(remaining_query), service_names_list[i])

\* The i-th known name has one or two characters and a score of at least 80
\* that no known name exceeds.
ShortWithTopScore(i) ==
    /\ Len(ReplaceSpace(service_names_list[i])) \in {1, 2}
    /\ ScoreAt(i) >= 80
    /\ \A j \in 1..Len(service_names_list) : ScoreAt(j) <= ScoreAt(i)

\* C29 (as the code has it): the minimum-length guard applies to the exact
\* pass only.  When an exact candidate qualifies the detected name is longer
\* than two characters; when none qualifies, a name of one or two characters
\* is detected whenever it is the first name in list order with the maximal
\* score and that score is at least 80, and it triggers a fast-track lookup
\* like any other name.
C29_ShortNameFirstTopScore ==
    [][Detecting =>
          /\ ExactCandidate => Len(ReplaceSpace(detected_service_name')) > 2
          /\ \A i \in 1..Len(service_names_list) :
                (/\ ~ExactCandidate
                 /\ ShortWithTopScore(i)
                 /\ \A j \in 1..(i - 1) : ScoreAt(j) < ScoreAt(i)) =>
                    /\ detected_service_name' = service_names_list[i]
                    /\ pc' = "reduce"
                    /\ lookups' = Append(lookups, [name |-> service_names_list[i]])
                    /\ fast_track_docs' = fast_track_docs
                          \o MetadataSearch(all_docs, [name |-> service_names_list[i]])]_vars

\* C29 (as stated): a name of one or two characters is never returned by the
\* exact pass, yet it is returned by the fuzzy pass whenever no exact
\* candidate qualifies and it has the maximal score of at least 80, and it
\* then triggers a fast-track lookup.
C29_ShortNameTopScore ==
    [][Detecting =>
          /\ ExactCandidate => Len(ReplaceSpace(detected_service_name')) > 2
          /\ \A i \in 1..Len(service_names_list) :
                (~ExactCandidate /\ ShortWithTopScore(i)) =>
                    /\ detected_service_name' = service_names_list[i]
                    /\ pc' = "reduce"
                    /\ lookups' = Append(lookups, [name |-> service_names_list[i]])]_vars

\* A name of two characters has been detected and looked up.
C29_Witness_ShortNameLookedUp ==
    /\ pc = "reduce"
    /\ Len(ReplaceSpace(detected_service_name)) = 2
    /\ ~ExactCandidate
    /\ lookups = << [name |-> detected_service_name] >>
    /\ fast_track_docs # << >>

\* The first position in the batch of a Record with the entry name.
FirstPosition(name) ==
    CHOOSE k \in 1..Len(final_docs) :
        /\ all_docs[final_docs[k]].name = name
        /\ \A j \in 1..(k - 1) : all_docs[final_docs[j]].name # name

\* How often a text occurs in another.
CountOf(text, sub) ==
    Cardinality({ i \in 1..(Len(text) - Len(sub) + 1) :
                    SubSeq(text, i, i + Len(sub) - 1) = sub })

\* C30: the groups of the context stand in the order in which their entry
\* names first occur in the final batch, and every entry name of a rendered
\* Record has exactly one group and one group header.
C30_GroupsInFirstOccurrenceOrder ==
    Assembled =>
        /\ { context_list[g].service_name : g \in 1..Len(context_list) }
              = { all_docs[i].name : i \in Rendered }
        /\ \A g, h \in 1..Len(context_list) :
              g < h => FirstPosition(context_list[g].service_name)
                          < FirstPosition(context_list[h].service_name)
        /\ \A g \in 1..Len(context_list) :
              CountOf(context_string,
                      GROUP_HEADER \o context_list[g].service_name \o << "\n" >>) = 1

\* The entry name of the first group comes again in the batch after the
\* first Record of the second group.
C30_Witness_NameComesAgain ==
    /\ Assembled
    /\ Len(context_list) = 2
    /\ context_list[1].service_name = NameAbcd
    /\ Len(final_docs) = 3
    /\ all_docs[final_docs[1]].name = NameAbcd
    /\ all_docs[final_docs[2]].name = NameAbc
    /\ all_docs[final_docs[3]].name = NameAbcd

=============================================================================
